---------------------------- MODULE Spec2Model ----------------------------
(***************************************************************************)
(* Loom: authenticated ingest service with per-sensor rate limiting, a     *)
(* batching ClickHouse / Elasticsearch writer and a disk outbox.           *)
(*                                                                         *)
(* The module holds one state machine per component:                       *)
(*   SpecLimiter  internal/ratelimit  PerSensorLimiter                     *)
(*   SpecOutbox   internal/output     diskOutbox                           *)
(*   SpecWriter   internal/output     clickHouseWriter, esWriter called by *)
(*                concurrent ingest requests (cmd/loom ProcessBatch)       *)
(*   SpecHandler  internal/ingest     Handler.ServeHTTP with auth.Validator *)
(*                and the limiter                                          *)
(***************************************************************************)
EXTENDS Integers, Sequences, FiniteSets, TLC

(***************************************************************************)
(* Bounds of the model.                                                    *)
(***************************************************************************)
\* requests of one behaviour of SpecBurst
MaxBurst == 4
\* the limiter's rps in SpecBurst
BurstRPS == 2
\* longest batch handed to ProcessBatch in SpecPipeline
MaxPipeLen == 2
\* calls of Validate and Update in one behaviour of SpecValidator
MaxAuthOps == 3
\* longest token, in bytes, presented to the validator
MaxTokenLen == 3
\* number of Allow calls recorded in one behaviour of SpecLimiter
MaxCalls == 4
\* clock readings of the limiter are the seconds 0..MaxSecond
MaxSecond == 2
\* events are 1..MaxEvents; event e marshals to e + 1 bytes including the newline
MaxEvents == 2
\* longest batch handed to enqueue in SpecOutbox
MaxBatchLen == 2
\* wall-clock readings are 0..MaxClock
MaxClock == 1
\* enqueues of one process in SpecOutbox (diskOutbox.seq stays below it)
MaxSeq == 2
\* spool files present before an enqueue of SpecOutbox
MaxFiles == 3
\* the byte cap of an outbox built with a cap (maxBytes > 0)
CapBytes == 5
\* the byte cap of the writer's outbox in SpecWriter: too small for two files
WriterCapBytes == 4
\* a byte cap of the writer's outbox that has room for every file
WriterRoomyCapBytes == 5
\* events written in one behaviour of SpecWriter
MaxWrites == 2
\* longest batch of one ingest request in SpecWriter
MaxRequestLen == 2
\* the writer's flush threshold (c.flush, 100 in the program), scaled down
Threshold == 2
\* spool files one drainOutbox call attempts (10 in the program), scaled down
DrainLimit == 2
\* insert attempts the sink fails before it accepts every insert
MaxInsertFails == 3
\* file-system faults (failed enqueue, unreadable spool file) in one behaviour
MaxDiskFaults == 1
\* the handler's MaxEvents (max_events_per_batch) in SpecHandler
MaxEventsPerBatch == 2
\* the limiter's rps in SpecHandler
HandlerRPS == 1
\* the last Unix second the clock of SpecHandler reaches
MaxHandlerSecond == 1
\* the writer's clock runs freely up to MaxWriterClock and further only up to nextRetryAt
MaxWriterClock == 1
\* events written in one behaviour of SpecBuffer
MaxBufferWrites == 4
\* insert attempts the sink fails in one behaviour of SpecBuffer
MaxBufferFails == 1
\* bits of a time.Duration (int64, 64 in the program), scaled down
DurationBits == 6
\* failed drain inserts in one behaviour of SpecBackoff
MaxBackoffFails == 4
\* the clock of SpecBackoff runs freely up to MaxBackoffClock and further only up to nextRetryAt
MaxBackoffClock == 2
\* digits the nanos field of a spool file name is padded to (20 in the program)
NanoDigits == 2
\* digits the seq field of a spool file name is padded to (6 in the program)
SeqDigits == 1
\* wall-clock readings of SpecNames are 0..MaxNameClock, in any order
MaxNameClock == 2
\* enqueues in one behaviour of SpecNames
MaxNameEnqueues == 3
\* enqueues a long-running process of SpecNames has made before the behaviour starts
NameSeqStart == 8
\* crashes (each followed by a restart) in one behaviour of SpecCrash
MaxCrashes == 2
\* events sent by sensors in one behaviour of SpecShutdown
MaxShutdownWrites == 3
\* enqueue calls in one behaviour of SpecCrash
MaxCrashEnqueues == 3
\* events of one failed batch in SpecSpool (the threshold plus one late writer)
MaxSpoolBatch == 3
\* failed batches in one behaviour of SpecSpool
MaxSpoolCalls == 2
\* EnrichEvent calls in one behaviour of SpecClose
MaxEnrichCalls == 3
\* clock ticks of one second (time.Second in ticks)
DNSSecond == 2
\* the clock of SpecDNS reads 0..MaxDNSClock ticks
MaxDNSClock == 4
\* the largest max_qps SpecDNS configures
MaxConfiguredQPS == 2

(***************************************************************************)
(* Program constants.                                                      *)
(***************************************************************************)
\* ratelimit.go:22  rps = 50 when built with 0
DefaultRPS == 50
\* output.go:428  retryBackoff = time.Second when configured <= 0 (unit: one second)
DefaultRetryBackoff == 1
\* output.go:432  retryMax = 30 * time.Second when configured <= 0
DefaultRetryMax == 30
\* output.go:555  time.Time{}, the zero time; the clock of SpecWriter starts after it
ZeroTime == 0
\* part_003:27  maxQPS = 10 when built with a non-positive value
DefaultQPS == 10

Sensors == {"sensor-a", "sensor-b"}
Seconds == 0..MaxSecond
\* rps arguments NewPerSensorLimiter is built with
RpsInputs == {-1, 0, 1, 2}

VARIABLES
    rpsArg,     \* the argument NewPerSensorLimiter was called with
    limiter,    \* PerSensorLimiter: [rps, lastTick, count]
    calls,      \* history of Allow calls: <<[sensor, now, ok], ...>>
    outbox,     \* diskOutbox: [maxBytes, totalBytes, files, seq, droppedEvents]
    disk,       \* the spool directory: [spool: name -> lines, tmp: name -> lines]
    clock,      \* time.Now(): the wall clock
    last,       \* what the last outbox operation did and returned
    writer,     \* clickHouseWriter / esWriter
    th,         \* the goroutines calling the writer: position and locals
    sink,       \* the events the sink has accepted
    env,        \* failures the environment may still inject, the number of events
                \* of the behaviour, and whether acct keeps the order of the buffer's
                \* writes, snapshots and deliveries
    nextEv,     \* the next event to be written
    acct,       \* events spooled so far and events lost, by cause
    http,       \* the ingest handler's current exchange: request and response
    validator,  \* auth.Validator: the tokens slice, its arrays and the RWMutex
    callers,    \* the goroutines calling the validator: position and locals
    enrich,     \* the Enricher and its last EnrichEvent call: event before and after
    pipe        \* the goroutines running ProcessBatch and the calls they made

limVars == <<rpsArg, limiter, calls>>
obVars == <<outbox, disk, clock, last>>
wrVars == <<writer, th, sink, env, nextEv, acct>>
auxVars == <<validator, callers, enrich, pipe>>
vars == <<rpsArg, limiter, calls, outbox, disk, clock, last,
          writer, th, sink, env, nextEv, acct, http, validator, callers, enrich, pipe>>

(***************************************************************************)
(* Go maps: a function whose domain is the set of keys present; reading a  *)
(* missing key gives the zero value.                                       *)
(***************************************************************************)
EmptyMap == [k \in {} |-> 0]
MapGet(m, k) == IF k \in DOMAIN m THEN m[k] ELSE 0
MapPut(m, k, v) == [x \in (DOMAIN m) \cup {k} |-> IF x = k THEN v ELSE m[x]]

(***************************************************************************)
(* internal/ratelimit/ratelimit.go                                         *)
(***************************************************************************)
\* mutant: no default and no "disabled" mapping, the argument is stored as is
NewPerSensorLimiter_Raw(rps) ==
    [rps |-> rps, lastTick |-> EmptyMap, count |-> EmptyMap]

NewPerSensorLimiter(rps) ==
    LET r1 == IF rps = 0 THEN DefaultRPS ELSE rps
        r2 == IF r1 < 0 THEN 0 ELSE r1
    IN  [rps |-> r2, lastTick |-> EmptyMap, count |-> EmptyMap]

\* mutant: a window reset clears the counts of every sensor
Allow_ResetAll(p, sensorID, now) ==
    IF p.rps <= 0 THEN [ok |-> TRUE, p |-> p]
    ELSE LET reset == (sensorID \notin DOMAIN p.lastTick) \/ p.lastTick[sensorID] # now
             tick  == IF reset THEN MapPut(p.lastTick, sensorID, now) ELSE p.lastTick
             cnt   == IF reset THEN [x \in (DOMAIN p.count) \cup {sensorID} |-> 0]
                      ELSE p.count
         IN  IF MapGet(cnt, sensorID) >= p.rps
             THEN [ok |-> FALSE, p |-> [p EXCEPT !.lastTick = tick, !.count = cnt]]
             ELSE [ok |-> TRUE,
                   p  |-> [p EXCEPT !.lastTick = tick,
                                    !.count = MapPut(cnt, sensorID, MapGet(cnt, sensorID) + 1)]]

\* mutant: the window is never reset once it exists
Allow_NoReset(p, sensorID, now) ==
    IF p.rps <= 0 THEN [ok |-> TRUE, p |-> p]
    ELSE LET reset == sensorID \notin DOMAIN p.lastTick
             tick  == IF reset THEN MapPut(p.lastTick, sensorID, now) ELSE p.lastTick
             cnt   == IF reset THEN MapPut(p.count, sensorID, 0) ELSE p.count
         IN  IF MapGet(cnt, sensorID) >= p.rps
             THEN [ok |-> FALSE, p |-> [p EXCEPT !.lastTick = tick, !.count = cnt]]
             ELSE [ok |-> TRUE,
                   p  |-> [p EXCEPT !.lastTick = tick,
                                    !.count = MapPut(cnt, sensorID, MapGet(cnt, sensorID) + 1)]]

\* mutant: the "disabled" early return is missing
Allow_NoDisable(p, sensorID, now) ==
    LET reset == (sensorID \notin DOMAIN p.lastTick) \/ p.lastTick[sensorID] # now
        tick  == IF reset THEN MapPut(p.lastTick, sensorID, now) ELSE p.lastTick
        cnt   == IF reset THEN MapPut(p.count, sensorID, 0) ELSE p.count
    IN  IF MapGet(cnt, sensorID) >= p.rps
        THEN [ok |-> FALSE, p |-> [p EXCEPT !.lastTick = tick, !.count = cnt]]
        ELSE [ok |-> TRUE,
              p  |-> [p EXCEPT !.lastTick = tick,
                               !.count = MapPut(cnt, sensorID, MapGet(cnt, sensorID) + 1)]]

\* Allow(sensorID) with nowFn().Unix() = now; the whole body runs under p.mu.
\* Result: the returned bool and the limiter after the call.
Allow(p, sensorID, now) ==
    IF p.rps <= 0 THEN [ok |-> TRUE, p |-> p]
    ELSE LET reset == (sensorID \notin DOMAIN p.lastTick) \/ p.lastTick[sensorID] # now
             tick  == IF reset THEN MapPut(p.lastTick, sensorID, now) ELSE p.lastTick
             cnt   == IF reset THEN MapPut(p.count, sensorID, 0) ELSE p.count
         IN  IF MapGet(cnt, sensorID) >= p.rps
             THEN [ok |-> FALSE, p |-> [p EXCEPT !.lastTick = tick, !.count = cnt]]
             ELSE [ok |-> TRUE,
                   p  |-> [p EXCEPT !.lastTick = tick,
                                    !.count = MapPut(cnt, sensorID, MapGet(cnt, sensorID) + 1)]]

RetryAfterSeconds(p, sensorID) == 1

(***************************************************************************)
(* internal/output/outbox.go                                               *)
(*                                                                         *)
(* An event is a number e in 1..MaxEvents whose json.Marshal output plus   *)
(* the newline has e + 1 bytes.  A spool file is the sequence of its lines.*)
(* A file name "%020d-%06d.ndjson" is the pair <<nanos, seq>>: both fields *)
(* are zero-padded to a fixed width, so Go's string order on names is the  *)
(* lexicographic order on the pairs.                                       *)
(***************************************************************************)
Events == 1..MaxEvents
LineBytes(ev) == ev + 1

RECURSIVE FileBytes(_)
FileBytes(lines) ==
    IF lines = <<>> THEN 0 ELSE LineBytes(Head(lines)) + FileBytes(Tail(lines))

\* countNDJSONLines: the non-blank lines; json.Marshal writes no blank line
countNDJSONLines(lines) == Len(lines)

\* the decimal digits of n >= 0 as bytes ('0' is 48)
RECURSIVE Digits(_)
Digits(n) == IF n < 10 THEN <<48 + n>> ELSE Append(Digits(n \div 10), 48 + (n % 10))

\* the verb %0wd: zero-padded on the left to at least w digits, never truncated
RECURSIVE ZeroPad(_, _)
ZeroPad(ds, w) == IF Len(ds) >= w THEN ds ELSE ZeroPad(<<48>> \o ds, w)

\* mutant: the name is formatted from the clock reading alone
SpoolName_NoSeq(nanos, seq) == ZeroPad(Digits(nanos), NanoDigits) \o <<45, 46>>

\* fmt.Sprintf("%020d-%06d.ndjson", nanos, seq), with the two widths scaled
\* to NanoDigits and SeqDigits; '-' is 45 and '.' is 46.  The bytes after the
\* dot are the same in every name and follow a byte that no digit equals, so
\* they decide no comparison and are left out.
SpoolName(nanos, seq) ==
    ZeroPad(Digits(nanos), NanoDigits) \o <<45>> \o ZeroPad(Digits(seq), SeqDigits) \o <<46>>

\* the nanos field of a spool file name
NanosPart(name) == SubSeq(name, 1, NanoDigits)

\* Go's < on strings: bytewise, a proper prefix is less
RECURSIVE LexLess(_, _)
LexLess(a, b) ==
    IF b = <<>> THEN FALSE
    ELSE IF a = <<>> THEN TRUE
    ELSE IF Head(a) # Head(b) THEN Head(a) < Head(b)
    ELSE LexLess(Tail(a), Tail(b))

NameLess(a, b) == LexLess(a, b)

EmptyDir == [spool |-> [n \in {} |-> <<>>], tmp |-> [n \in {} |-> <<>>]]
DirPut(dir, n, lines) == [x \in (DOMAIN dir) \cup {n} |-> IF x = n THEN lines ELSE dir[x]]
DirDel(dir, n) == [x \in (DOMAIN dir) \ {n} |-> dir[x]]

\* sort.Slice(files, name <): the files in ascending name order
SortByName(fs) ==
    LET before(j, k) == NameLess(fs[j].name, fs[k].name) \/ (fs[j].name = fs[k].name /\ j < k)
        rank(k) == Cardinality({j \in 1..Len(fs) : before(j, k)}) + 1
    IN  [i \in 1..Len(fs) |-> fs[CHOOSE k \in 1..Len(fs) : rank(k) = i]]

RECURSIVE SumSizes(_)
SumSizes(fs) == IF fs = <<>> THEN 0 ELSE Head(fs).size + SumSizes(Tail(fs))

RECURSIVE SetToSeq(_)
SetToSeq(S) == IF S = {} THEN <<>> ELSE LET x == CHOOSE y \in S : TRUE
                                        IN  <<x>> \o SetToSeq(S \ {x})

\* the suffix reload asks for (".ndjson", the dot of SpoolName) and the one
\* enqueue appends to the name of the file it writes (".tmp")
NdjsonSuffix == <<46>>
TmpSuffix == <<46, 116, 109, 112>>

\* strings.HasSuffix
HasSuffix(name, suffix) ==
    /\ Len(name) >= Len(suffix)
    /\ SubSeq(name, Len(name) - Len(suffix) + 1, Len(name)) = suffix

\* os.ReadDir: the names of the directory's entries; a file being written by
\* enqueue is entered under its final name followed by ".tmp"
ReadDir(d) == (DOMAIN d.spool) \cup {n \o TmpSuffix : n \in DOMAIN d.tmp}

\* the lines of the entry with that name
EntryLines(d, name) ==
    IF name \in DOMAIN d.spool THEN d.spool[name]
    ELSE d.tmp[SubSeq(name, 1, Len(name) - Len(TmpSuffix))]

\* mutant: every entry of the directory is listed
reloadKeeps_All(name) == TRUE

\* the entries reload does not skip
reloadKeeps(name) == HasSuffix(name, NdjsonSuffix)

\* reload: the .ndjson files of the directory with their size and line count
reload(o, d) ==
    LET names == {n \in ReadDir(d) : reloadKeeps(n)}
        metas == [n \in names |->
                     [name |-> n, size |-> FileBytes(EntryLines(d, n)),
                      events |-> countNDJSONLines(EntryLines(d, n))]]
        files == SortByName(SetToSeq({metas[n] : n \in names}))
    IN  [o EXCEPT !.files = files, !.totalBytes = SumSizes(files)]

\* newDiskOutbox(dir, maxBytes): a fresh struct, then reload
newDiskOutbox(d, maxBytes) ==
    reload([maxBytes |-> maxBytes, totalBytes |-> 0, files |-> <<>>, seq |-> 0,
            droppedEvents |-> 0], d)

\* mutant: overflow may delete the last file too
RECURSIVE enforceMaxBytesLocked_Empties(_, _)
enforceMaxBytesLocked_Empties(o, d) ==
    IF o.maxBytes <= 0 THEN [o |-> o, d |-> d, dropped |-> 0]
    ELSE IF o.totalBytes > o.maxBytes /\ Len(o.files) > 0
    THEN LET oldest == o.files[1]
             o1 == [o EXCEPT !.files = Tail(o.files),
                             !.totalBytes = o.totalBytes - oldest.size,
                             !.droppedEvents = o.droppedEvents + oldest.events]
             d1 == [d EXCEPT !.spool = DirDel(d.spool, oldest.name)]
             r  == enforceMaxBytesLocked_Empties(o1, d1)
         IN  [r EXCEPT !.dropped = @ + oldest.events]
    ELSE [o |-> o, d |-> d, dropped |-> 0]

\* mutant: a deleted file's size stays in totalBytes
RECURSIVE enforceMaxBytesLocked_KeepsBytes(_, _)
enforceMaxBytesLocked_KeepsBytes(o, d) ==
    IF o.maxBytes <= 0 THEN [o |-> o, d |-> d, dropped |-> 0]
    ELSE IF SumSizes(o.files) > o.maxBytes /\ Len(o.files) > 1
    THEN LET oldest == o.files[1]
             o1 == [o EXCEPT !.files = Tail(o.files),
                             !.droppedEvents = o.droppedEvents + oldest.events]
             d1 == [d EXCEPT !.spool = DirDel(d.spool, oldest.name)]
             r  == enforceMaxBytesLocked_KeepsBytes(o1, d1)
         IN  [r EXCEPT !.dropped = @ + oldest.events]
    ELSE [o |-> o, d |-> d, dropped |-> 0]

\* mutant: the returned count is the number of deleted files, not of their events
RECURSIVE enforceMaxBytesLocked_CountsFiles(_, _)
enforceMaxBytesLocked_CountsFiles(o, d) ==
    IF o.maxBytes <= 0 THEN [o |-> o, d |-> d, dropped |-> 0]
    ELSE IF o.totalBytes > o.maxBytes /\ Len(o.files) > 1
    THEN LET oldest == o.files[1]
             o1 == [o EXCEPT !.files = Tail(o.files),
                             !.totalBytes = o.totalBytes - oldest.size,
                             !.droppedEvents = o.droppedEvents + oldest.events]
             d1 == [d EXCEPT !.spool = DirDel(d.spool, oldest.name)]
             r  == enforceMaxBytesLocked_CountsFiles(o1, d1)
         IN  [r EXCEPT !.dropped = @ + 1]
    ELSE [o |-> o, d |-> d, dropped |-> 0]

\* enforceMaxBytesLocked: the outbox, the directory and the returned count
RECURSIVE enforceMaxBytesLocked(_, _)
enforceMaxBytesLocked(o, d) ==
    IF o.maxBytes <= 0 THEN [o |-> o, d |-> d, dropped |-> 0]
    ELSE IF o.totalBytes > o.maxBytes /\ Len(o.files) > 1
    THEN LET oldest == o.files[1]
             o1 == [o EXCEPT !.files = Tail(o.files),
                             !.totalBytes = o.totalBytes - oldest.size,
                             !.droppedEvents = o.droppedEvents + oldest.events]
             d1 == [d EXCEPT !.spool = DirDel(d.spool, oldest.name)]
             r  == enforceMaxBytesLocked(o1, d1)
         IN  [r EXCEPT !.dropped = @ + oldest.events]
    ELSE [o |-> o, d |-> d, dropped |-> 0]

\* what the file system does to one enqueue: both calls succeed, os.WriteFile
\* fails leaving nothing or a partial .tmp, or os.Rename fails
IoOutcomes(batch) ==
    {[io |-> "ok", left |-> 0], [io |-> "rename_err", left |-> 0],
     [io |-> "write_err", left |-> -1]}
    \cup {[io |-> "write_err", left |-> k] : k \in 0..(Len(batch) - 1)}

\* enqueue(batch) at wall-clock reading nanos; the part after the marshalling
\* runs under o.mu.  Result: outbox, directory, droppedEvents and err.
enqueue(o, d, batch, nanos, fs) ==
    IF Len(batch) = 0 THEN [o |-> o, d |-> d, dropped |-> 0, err |-> "nil"]
    ELSE LET o1   == [o EXCEPT !.seq = o.seq + 1]
             name == SpoolName(nanos, o1.seq)
         IN  IF fs.io = "write_err"
             THEN [o |-> o1,
                   d |-> IF fs.left < 0 THEN d
                         ELSE [d EXCEPT !.tmp = DirPut(d.tmp, name, SubSeq(batch, 1, fs.left))],
                   dropped |-> 0, err |-> "write_err"]
             ELSE IF fs.io = "rename_err"
             THEN [o |-> o1, d |-> d, dropped |-> 0, err |-> "rename_err"]
             ELSE LET meta == [name |-> name, size |-> FileBytes(batch),
                               events |-> Len(batch)]
                      o2 == [o1 EXCEPT !.files = SortByName(Append(o1.files, meta)),
                                       !.totalBytes = o1.totalBytes + meta.size]
                      d2 == [d EXCEPT !.spool = DirPut(d.spool, name, batch)]
                      r  == enforceMaxBytesLocked(o2, d2)
                  IN  r @@ [err |-> "nil"]

\* mutant: the newest file is taken
oldestMeta_Newest(o) ==
    IF Len(o.files) = 0 THEN [ok |-> FALSE, meta |-> [name |-> <<0, 0>>, size |-> 0, events |-> 0]]
    ELSE [ok |-> TRUE, meta |-> o.files[Len(o.files)]]

\* oldestMeta
oldestMeta(o) ==
    IF Len(o.files) = 0 THEN [ok |-> FALSE, meta |-> [name |-> <<0, 0>>, size |-> 0, events |-> 0]]
    ELSE [ok |-> TRUE, meta |-> o.files[1]]

\* mutant: the removed file's size stays in totalBytes
removeByName_KeepsBytes(o, d, name) ==
    LET hits == {i \in 1..Len(o.files) : o.files[i].name = name}
    IN  IF hits = {} THEN [o |-> o, d |-> d, err |-> "nil"]
        ELSE LET idx == CHOOSE i \in hits : \A j \in hits : i <= j
             IN  [o |-> [o EXCEPT !.files = [j \in 1..(Len(o.files) - 1) |->
                                     IF j < idx THEN o.files[j] ELSE o.files[j + 1]]],
                  d |-> [d EXCEPT !.spool = DirDel(d.spool, name)],
                  err |-> IF name \in DOMAIN d.spool THEN "nil" ELSE "remove_err"]

\* removeByName(name), under o.mu
removeByName(o, d, name) ==
    LET hits == {i \in 1..Len(o.files) : o.files[i].name = name}
    IN  IF hits = {} THEN [o |-> o, d |-> d, err |-> "nil"]
        ELSE LET idx  == CHOOSE i \in hits : \A j \in hits : i <= j
                 meta == o.files[idx]
                 tb   == o.totalBytes - meta.size
             IN  [o |-> [o EXCEPT !.files = [j \in 1..(Len(o.files) - 1) |->
                                     IF j < idx THEN o.files[j] ELSE o.files[j + 1]],
                                  !.totalBytes = IF tb < 0 THEN 0 ELSE tb],
                  d |-> [d EXCEPT !.spool = DirDel(d.spool, name)],
                  err |-> IF name \in DOMAIN d.spool THEN "nil" ELSE "remove_err"]

\* stats
stats(o) == [files |-> Len(o.files), bytes |-> o.totalBytes, droppedEvents |-> o.droppedEvents]

\* the events in the lines of the files a call deleted from the directory
RECURSIVE LinesIn(_, _)
LinesIn(dir, names) ==
    IF names = {} THEN 0
    ELSE LET n == CHOOSE x \in names : TRUE
         IN  countNDJSONLines(dir[n]) + LinesIn(dir, names \ {n})

NoOp == [op |-> "none", err |-> "nil", dropped |-> 0, deletedLines |-> 0,
         droppedBefore |-> 0, stored |-> FALSE]

\* the record of an enqueue that took the outbox and directory from o, d to r
EnqueueRecord(o, d, batch, r) ==
    LET stored  == r.err = "nil" /\ Len(batch) > 0
        name    == SpoolName(clock, o.seq + 1)
        withNew == IF stored THEN DirPut(d.spool, name, batch) ELSE d.spool
        gone    == (DOMAIN withNew) \ (DOMAIN r.d.spool)
    IN  [op |-> "enqueue", err |-> r.err, dropped |-> r.dropped,
         deletedLines |-> LinesIn(withNew, gone),
         droppedBefore |-> o.droppedEvents, stored |-> stored]

(***************************************************************************)
(* internal/output/output.go: clickHouseWriter and esWriter                *)
(***************************************************************************)
Range(q) == {q[i] : i \in 1..Len(q)}

\* the writers NewWriter builds: ClickHouse with outbox, ClickHouse without, Elasticsearch
WriterKinds == {"clickhouse+outbox", "clickhouse", "elasticsearch"}
\* OutboxConfig.RetryBackoff / RetryMaxBackoff the writer is built with
RetryConfigs == {[backoff |-> 1, max |-> 2]}
\* OutboxConfig.MaxBatchSize
BatchSizeConfigs == {0, 1}
\* OutboxConfig.MaxBytes
WriterCaps == {WriterCapBytes, WriterRoomyCapBytes}

\* newClickHouseWriter; for kind "elasticsearch" the esWriter of NewWriter,
\* which has buf and flush only
newClickHouseWriter(kind, retryBackoff, retryMax, maxBatchSize) ==
    LET noB == retryBackoff <= 0
    IN  [kind |-> kind,
         hasOutbox |-> kind = "clickhouse+outbox",
         buf |-> <<>>,
         flush |-> Threshold,
         retryBackoff |-> IF noB THEN DefaultRetryBackoff ELSE retryBackoff,
         currentBackoff |-> IF noB THEN DefaultRetryBackoff ELSE retryBackoff,
         retryMax |-> IF retryMax <= 0 THEN DefaultRetryMax ELSE retryMax,
         nextRetryAt |-> ZeroTime,
         outboxBatchSize |-> IF maxBatchSize <= 0 THEN Threshold ELSE maxBatchSize]

\* mutant: only the first chunk is kept
splitBatches_DropsRest(batch, size) ==
    IF size <= 0 \/ Len(batch) <= size THEN <<batch>> ELSE <<SubSeq(batch, 1, size)>>

\* mutant: the batch is never split
splitBatches_Whole(batch, size) == <<batch>>

\* splitBatches
RECURSIVE splitBatches(_, _)
splitBatches(batch, size) ==
    IF size <= 0 \/ Len(batch) <= size THEN <<batch>>
    ELSE <<SubSeq(batch, 1, size)>> \o splitBatches(SubSeq(batch, size + 1, Len(batch)), size)

\* mutant: the insert error is returned although the batch can be spooled
onInsertError_ReturnsErr(hasOutbox) == "return_err"

\* mutant: the insert error is swallowed although there is no outbox
onInsertError_Swallows(hasOutbox) == "return_nil"

\* flushBuf after insertBatch failed: spool the batch, or return the error
onInsertError(hasOutbox) == IF hasOutbox THEN "spool" ELSE "return_err"

\* mutant: the buffer is read but not replaced
takeBuffer_KeepsBuf(c) == [batch |-> c.buf, c |-> c]

\* flushBuf under the mutex: batch := c.buf; c.buf = make(..., 0, c.flush)
takeBuffer(c) == [batch |-> c.buf, c |-> [c EXCEPT !.buf = <<>>]]

\* mutant: a failed batch goes back to the buffer
bufAfterFailedInsert_Requeue(buf, batch) == batch \o buf

\* the buffer after a failed insert: the batch was moved out before the call
bufAfterFailedInsert(buf, batch) == buf

\* mutant: the gate stays closed once a retry time was set
drainDue_StaysClosed(c, now) == c.nextRetryAt = ZeroTime

\* mutant: the gate is always open
drainDue_Always(c, now) == TRUE

\* drainOutbox's gate: TRUE when the drain may run
drainDue(c, now) == ~(c.nextRetryAt # ZeroTime /\ now < c.nextRetryAt)

\* drainOutbox when the outbox is empty
drainOnEmpty(c) == [c EXCEPT !.currentBackoff = c.retryBackoff, !.nextRetryAt = ZeroTime]

\* a time.Duration after arithmetic: int64 wraps around
WrapDuration(x) ==
    ((x + 2 ^ (DurationBits - 1)) % (2 ^ DurationBits)) - 2 ^ (DurationBits - 1)

\* mutant: the delay is the doubled backoff
drainOnInsertError_DoubledFirst(c, now) ==
    LET doubled == WrapDuration(c.currentBackoff * 2)
        capped  == IF doubled > c.retryMax THEN c.retryMax ELSE doubled
    IN  [c EXCEPT !.nextRetryAt = now + capped, !.currentBackoff = capped]

\* drainOutbox when the insert of a spool file failed
drainOnInsertError(c, now) ==
    LET doubled == WrapDuration(c.currentBackoff * 2)
    IN  [c EXCEPT !.nextRetryAt = now + c.currentBackoff,
                  !.currentBackoff = IF doubled > c.retryMax THEN c.retryMax ELSE doubled]

\* mutant: after the insert the file that is the oldest now is removed
removeAfterDrain_Oldest(o, d, name) ==
    IF oldestMeta(o).ok THEN removeByName(o, d, oldestMeta(o).meta.name)
    ELSE [o |-> o, d |-> d, err |-> "nil"]

\* mutant: a drained file is not removed after its insert succeeded
removeAfterDrain_Keeps(o, d, name) == [o |-> o, d |-> d, err |-> "nil"]

\* drainOutbox after a successful insert: c.outbox.removeByName(meta.name)
removeAfterDrain(o, d, name) == removeByName(o, d, name)

(***************************************************************************)
(* A goroutine is idle, runs an ingest request (ProcessBatch: Write for    *)
(* each event in order, stop at the first error) or runs Flush.  pc is the *)
(* next step; a step is one critical section or one call to the sink.      *)
(***************************************************************************)
Threads == {1, 2}

NoMeta == [name |-> <<0, 0>>, size |-> 0, events |-> 0]

IdleThread ==
    [pc |-> "idle", op |-> "none", todo |-> <<>>, batch |-> <<>>, chunks |-> <<>>,
     i |-> 0, meta |-> NoMeta, failed |-> <<>>, tried |-> 0]

\* the handler's answer once Write returned err to ProcessBatch: 500 on an
\* error, 204 after the last event, 0 while the request goes on (and for a
\* Flush call, which answers nobody)
StatusAfter(thr, err) ==
    IF thr.op # "request" THEN 0
    ELSE IF err # "nil" THEN 500
    ELSE IF Len(thr.todo) <= 1 THEN 204
    ELSE 0

\* the goroutine after Flush (or Write, which returns what Flush returned)
\* returned err: a request goes on with its next event unless it answered
AfterFlush(thr, err) ==
    IF thr.op = "request" /\ StatusAfter(thr, err) = 0
    THEN [IdleThread EXCEPT !.pc = "write", !.op = "request", !.todo = Tail(thr.todo)]
    ELSE IdleThread

\* what a returning Write or Flush call leaves in last: the error, the batch
\* whose insert failed in this call, and the handler's answer
ReturnRecord(t, thr, err) ==
    [op |-> "return", t |-> t, call |-> IF thr.op = "request" THEN "Write" ELSE "Flush",
     err |-> err, failed |-> thr.failed, flushed |-> thr.pc # "write", from |-> thr.pc,
     status |-> StatusAfter(thr, err)]

\* the events held by the .ndjson files of directory d
InFiles(d) == UNION {Range(d.spool[n]) : n \in DOMAIN d.spool}

(***************************************************************************)
(* internal/auth and internal/ingest/ingest.go                             *)
(*                                                                         *)
(* A request is its method, its Content-Type, its Authorization header (a  *)
(* scheme word and a token, scheme "" for no header), its X-Spip-ID header *)
(* and its body.  A body is too large for MaxBytesReader, fails to read,   *)
(* does not start with '[', starts with '[' but does not unmarshal into    *)
(* []map[string]interface{}, or is an array whose elements are null, an    *)
(* object within MaxEventBytes ("small") or an object above it ("large").  *)
(***************************************************************************)
\* the validator's table: token -> sensor id
TokenTable == [t \in {"tok-a", "tok-b"} |-> IF t = "tok-a" THEN "sensor-a" ELSE "sensor-b"]

\* mutant: a token that is not in the table counts as the first sensor's
Validate_Fallback(token) ==
    IF token = "" THEN ""
    ELSE IF token \in DOMAIN TokenTable THEN TokenTable[token] ELSE "sensor-a"

\* Validator.Validate
Validate(token) ==
    IF token = "" THEN ""
    ELSE IF token \in DOMAIN TokenTable THEN TokenTable[token] ELSE ""

\* strings.HasPrefix(strings.ToLower(authz), "bearer ")
HasBearerPrefix(authz) == authz.scheme \in {"Bearer", "bearer", "BEARER"}

\* the token ServeHTTP cuts out of the header: TrimPrefix "Bearer", TrimSpace,
\* TrimPrefix "bearer "; any other spelling of the scheme stays in the token,
\* and after the scheme "Bearer" one leading "bearer " is cut off the token too
TokenOf(authz) ==
    IF authz.scheme = "Bearer" /\ authz.token = "bearer tok-b" THEN "tok-b"
    ELSE IF authz.scheme \in {"Bearer", "bearer"} THEN authz.token
    ELSE <<authz.scheme, authz.token>>

\* mutant: the X-Spip-ID header is never compared with the token's sensor
SpipMismatch_Never(header, sensorID) == FALSE

\* the X-Spip-ID header is present and is not the sensor id of the token
SpipMismatch(header, sensorID) == header # "" /\ header # sensorID

\* pbCalls, pbResult: the calls of ProcessBatch and what the call returned
NoResponse == [status |-> 0, slug |-> "", json |-> FALSE, retryAfter |-> "",
               metrics |-> <<>>, rateKey |-> "", processed |-> "",
               pbCalls |-> 0, pbResult |-> ""]

\* respondErr: Content-Type application/json, the status and {"error":slug}
respondErr(code, slug) == [NoResponse EXCEPT !.status = code, !.slug = slug, !.json = TRUE]

\* w.WriteHeader(413) and the body, with no Content-Type set by the handler:
\* net/http then sends the type it detects from the body, text/plain
respondTooLarge(slug) == [NoResponse EXCEPT !.status = 413, !.slug = slug]

\* mutant: the 429 response carries no Retry-After header
respondRateLimited_NoRetryAfter == respondErr(429, "rate_limit_exceeded")

\* the response to a request the limiter rejects: Retry-After: 1 and 429
respondRateLimited ==
    [respondErr(429, "rate_limit_exceeded") EXCEPT !.retryAfter = "1"]

\* mutant: the error of ProcessBatch is dropped
AfterProcessBatch_IgnoresError(pbErr) ==
    [NoResponse EXCEPT !.status = 204, !.pbCalls = 1,
                       !.pbResult = IF pbErr THEN "error" ELSE "nil"]

\* the call of ProcessBatch and the end of ServeHTTP: 500 internal_error on
\* an error, else WriteHeader(204)
AfterProcessBatch(pbErr) ==
    IF pbErr
    THEN [respondErr(500, "internal_error") EXCEPT !.pbCalls = 1, !.pbResult = "error"]
    ELSE [NoResponse EXCEPT !.status = 204, !.pbCalls = 1, !.pbResult = "nil"]

\* mutant: the sizes of all elements are checked before any null element
CheckElements_SizeFirst(elems) ==
    IF \E i \in 1..Len(elems) : elems[i] = "large" THEN "event_too_large"
    ELSE IF \E i \in 1..Len(elems) : elems[i] = "null" THEN "invalid_request"
    ELSE "ok"

\* the loop over the events: the first element that is nil or whose
\* re-serialisation exceeds MaxEventBytes ends the request
RECURSIVE CheckElements(_)
CheckElements(elems) ==
    IF elems = <<>> THEN "ok"
    ELSE IF Head(elems) = "null" THEN "invalid_request"
    ELSE IF Head(elems) = "large" THEN "event_too_large"
    ELSE CheckElements(Tail(elems))

\* mutant: the batch length is checked after the elements
CheckBody_LengthLast(body) ==
    IF body.kind = "too_large" THEN "payload_too_large"
    ELSE IF body.kind \in {"read_error", "not_array", "bad_json"} THEN "invalid_request"
    ELSE IF CheckElements(body.elems) # "ok" THEN CheckElements(body.elems)
    ELSE IF Len(body.elems) > MaxEventsPerBatch THEN "batch_too_large"
    ELSE "ok"

\* ServeHTTP from MaxBytesReader to the end of the loop over the events:
\* "ok" or the slug of the error
CheckBody(body) ==
    IF body.kind = "too_large" THEN "payload_too_large"
    ELSE IF body.kind = "read_error" THEN "invalid_request"
    ELSE IF body.kind = "not_array" THEN "invalid_request"
    ELSE IF body.kind = "bad_json" THEN "invalid_request"
    ELSE IF Len(body.elems) > MaxEventsPerBatch THEN "batch_too_large"
    ELSE CheckElements(body.elems)

\* Handler.ServeHTTP at Unix second now; pbErr tells whether ProcessBatch
\* returns an error.  Result: the response and the limiter afterwards.
ServeHTTP(p, req, now, pbErr) ==
    IF req.method # "POST"
    THEN [resp |-> respondErr(405, "method_not_allowed"), limiter |-> p]
    ELSE IF req.contentType # "application/json"
    THEN [resp |-> respondErr(415, "invalid_content_type"), limiter |-> p]
    ELSE IF req.authz.scheme = "" \/ ~HasBearerPrefix(req.authz)
    THEN [resp |-> [respondErr(401, "unauthorized") EXCEPT !.metrics = <<<<"unknown", 401>>>>],
          limiter |-> p]
    ELSE LET sensorID == Validate(TokenOf(req.authz))
         IN  IF sensorID = ""
             THEN [resp |-> [respondErr(401, "unauthorized") EXCEPT !.metrics = <<<<"unknown", 401>>>>],
                   limiter |-> p]
             ELSE IF SpipMismatch(req.xSpipID, sensorID)
             THEN [resp |-> respondErr(401, "unauthorized"), limiter |-> p]
             ELSE LET id      == IF req.xSpipID = "" THEN sensorID ELSE req.xSpipID
                      a       == Allow(p, id, now)
                      verdict == CheckBody(req.body)
                      counted(r, codes) == [r EXCEPT !.metrics = [i \in 1..Len(codes) |-> <<id, codes[i]>>],
                                                     !.rateKey = id]
                  IN  IF ~a.ok
                      THEN [resp |-> counted(respondRateLimited, <<429>>), limiter |-> a.p]
                      ELSE IF verdict \in {"payload_too_large", "batch_too_large", "event_too_large"}
                      THEN [resp |-> counted(respondTooLarge(verdict), <<413>>), limiter |-> a.p]
                      ELSE IF verdict # "ok"
                      THEN [resp |-> counted(respondErr(400, verdict), <<400>>), limiter |-> a.p]
                      ELSE [resp |-> [counted(AfterProcessBatch(pbErr),
                                              IF pbErr THEN <<200, 500>> ELSE <<200>>)
                                         EXCEPT !.processed = id],
                            limiter |-> a.p]

NoExchange == [pc |-> "idle"]

(***************************************************************************)
(* internal/auth: Validator.  Tokens are byte strings.  v.tokens is a      *)
(* slice: a pointer to an array of entries and a length; Update builds a   *)
(* new array from the map it is given (in the map's iteration order, which *)
(* is any order) and stores the slice under the write lock; Validate       *)
(* ranges over the slice under the read lock.                              *)
(***************************************************************************)
Bytes == {1, 2}
Tokens == UNION {[1..n -> Bytes] : n \in 0..MaxTokenLen}

\* the token maps NewValidator and Update are called with
TokenMaps ==
    { (<<1, 2>> :> "sensor-a") @@ (<<2, 1, 2>> :> "sensor-b"),
      (<<1, 2, 1>> :> "sensor-b"),
      (<<>> :> "sensor-a") @@ (<<1>> :> "sensor-b"),
      EmptyMap }

\* the entries Update builds: one per key of the map, in any order
EntriesOf(tokenToSensor) ==
    LET n == Cardinality(DOMAIN tokenToSensor)
    IN  {[i \in 1..n |-> [token |-> q[i], sensorID |-> tokenToSensor[q[i]]]] :
            q \in {f \in [1..n -> DOMAIN tokenToSensor] :
                      \A i, j \in 1..n : i # j => f[i] # f[j]}}

\* mutant: the stored token is compared with the front of the presented one
ConstantTimeCompare_Prefix(x, y) ==
    IF Len(x) > Len(y) THEN 0
    ELSE IF \A i \in 1..Len(x) : x[i] = y[i] THEN 1 ELSE 0

\* subtle.ConstantTimeCompare: 1 iff both have the same length and bytes
ConstantTimeCompare(x, y) ==
    IF Len(x) # Len(y) THEN 0
    ELSE IF \A i \in 1..Len(x) : x[i] = y[i] THEN 1 ELSE 0

\* the loop of Validate over a slice (array arr, length n) from index i;
\* an index outside the array is a read of foreign memory
RECURSIVE ScanFrom(_, _, _, _)
ScanFrom(arr, n, b, i) ==
    IF i > n THEN ""
    ELSE IF i > Len(arr) THEN "out-of-range"
    ELSE IF ConstantTimeCompare(arr[i].token, b) = 1 THEN arr[i].sensorID
    ELSE ScanFrom(arr, n, b, i + 1)

\* NewValidator: an empty Validator and one Update with the map.
\* heap: the arrays allocated so far; maps[p]: the map array p was built from;
\* cur: the array of the last completed Update; ops: calls made so far
NewValidator(tokenToSensor, entries) ==
    [ptr |-> 1, len |-> Len(entries), heap |-> <<entries>>, maps |-> <<tokenToSensor>>,
     readers |-> {}, writer |-> 0, cur |-> 1, ops |-> 0]

\* mutant: Update takes no lock
CanLock_Always(v) == TRUE

\* v.mu.Lock() returns: no reader and no writer holds the mutex
CanLock(v) == v.readers = {} /\ v.writer = 0

\* v.mu.RLock() returns: no writer holds the mutex
CanRLock(v) == v.writer = 0

\* mutant: the loop of Config.validate remembers no sensor
validateTokens_ForgetsSensors(entries, seen) == "nil"

\* the loop of Config.validate over c.Auth.Tokens in the order entries:
\* seen is seenSensor, the token last met for each sensor
RECURSIVE validateTokens(_, _)
validateTokens(entries, seen) ==
    IF entries = <<>> THEN "nil"
    ELSE LET e == Head(entries)
         IN  IF e.sensorID \in DOMAIN seen /\ seen[e.sensorID] # e.token
             THEN "multiple_tokens"
             ELSE validateTokens(Tail(entries),
                                 [x \in (DOMAIN seen) \cup {e.sensorID} |->
                                     IF x = e.sensorID THEN e.token ELSE seen[x]])

\* Config.validate on the tokens, ranging over the map in the order entries
validate(entries) ==
    IF Len(entries) = 0 THEN "no_tokens" ELSE validateTokens(entries, EmptyMap)

\* Update as one step: the new slice is stored and the call returns
Update(v, tokenToSensor, entries) ==
    [v EXCEPT !.heap = Append(@, entries), !.maps = Append(@, tokenToSensor),
              !.ptr = Len(v.heap) + 1, !.len = Len(entries),
              !.cur = Len(v.heap) + 1, !.ops = @ + 1]

Callers == {1, 2}

\* seen: the arrays that were current at some time during the call;
\* read: the array the call ranged over
IdleCaller == [pc |-> "idle", op |-> "", token |-> <<>>, map |-> EmptyMap,
               entries |-> <<>>, result |-> "", seen |-> {}, read |-> 0]

ValidatorIdle ==
    /\ validator = NewValidator(EmptyMap, <<>>)
    /\ callers = [c \in Callers |-> IdleCaller]

(***************************************************************************)
(* internal/enrich: Enricher.EnrichEvent.  A JSON value is null, a string, *)
(* a number or an object (a Go map from keys to JSON values); an event is  *)
(* the map of its top-level keys.                                          *)
(***************************************************************************)
JNull == [t |-> "null"]
JStr(str) == [t |-> "string", s |-> str]
JNum(num) == [t |-> "number", n |-> num]
JObj(map) == [t |-> "object", o |-> map]

\* a key that is not in the map
Absent == [t |-> "absent"]
\* the map with the keys of f that are not Absent
ObjOf(f) == [k \in {x \in DOMAIN f : f[x].t # "absent"} |-> f[k]]

\* m[k].(map[string]interface{}) succeeds with a non-nil map
IsMap(m, k) == k \in DOMAIN m /\ m[k].t = "object"
\* the map of that type assertion, a new empty map where the code makes one
MapAt(m, k) == IF IsMap(m, k) THEN m[k].o ELSE EmptyMap
\* s, _ := m[k].(string)
StringAt(m, k) == IF k \in DOMAIN m /\ m[k].t = "string" THEN m[k].s ELSE ""

\* net.ParseIP(ipStr) != nil
IsIP(ipStr) == ipStr \in {"8.8.8.8"}

\* the Enricher: which of asnDB, geoDB and dns are not nil
Enrichers == [asnDB : BOOLEAN, geoDB : BOOLEAN, dns : BOOLEAN]

\* what asnDB.ASN(ip) returns
ASNResults ==
    {[err |-> TRUE, number |-> 0, org |-> ""],
     [err |-> FALSE, number |-> 15169, org |-> ""],
     [err |-> FALSE, number |-> 15169, org |-> "GOOGLE"]}

\* what geoDB.City(ip) returns: the ISO code, the first subdivision's and the
\* city's English name when there is one, the coordinates
CityResults ==
    {[err |-> TRUE, iso |-> "", hasSub |-> FALSE, region |-> "", hasCity |-> FALSE,
      city |-> "", lat |-> 0, lon |-> 0],
     [err |-> FALSE, iso |-> "", hasSub |-> FALSE, region |-> "", hasCity |-> FALSE,
      city |-> "", lat |-> 0, lon |-> 0],
     [err |-> FALSE, iso |-> "NL", hasSub |-> TRUE, region |-> "North Holland",
      hasCity |-> TRUE, city |-> "Amsterdam", lat |-> 52, lon |-> 4]}

\* what dns.LookupPTR(ip) returns
PTRResults == {"", "dns.google"}

\* the ASN branch after a successful lookup: number and organization.name are
\* merged into source.as when that is a map, else source.as becomes a new map
setAS(source, asn) ==
    LET nameObj == JObj([name |-> JStr(asn.org)])
    IN  IF IsMap(source, "as")
        THEN LET as1 == MapPut(source["as"].o, "number", JNum(asn.number))
                 as2 == IF asn.org = "" THEN as1
                        ELSE IF IsMap(as1, "organization")
                        THEN MapPut(as1, "organization",
                                 JObj(MapPut(as1["organization"].o, "name", JStr(asn.org))))
                        ELSE MapPut(as1, "organization", nameObj)
             IN  MapPut(source, "as", JObj(as2))
        ELSE LET as1 == [number |-> JNum(asn.number)]
                 as2 == IF asn.org = "" THEN as1 ELSE MapPut(as1, "organization", nameObj)
             IN  MapPut(source, "as", JObj(as2))

\* setGeo
setGeo(geo, city) ==
    LET g1 == IF city.iso # "" THEN MapPut(geo, "country_iso_code", JStr(city.iso)) ELSE geo
        g2 == IF city.hasSub THEN MapPut(g1, "region_name", JStr(city.region)) ELSE g1
        g3 == IF city.hasCity THEN MapPut(g2, "city_name", JStr(city.city)) ELSE g2
    IN  IF city.lat # 0 \/ city.lon # 0
        THEN MapPut(g3, "location", JObj([lat |-> JNum(city.lat), lon |-> JNum(city.lon)]))
        ELSE g3

\* the event after the call: event["source"] is the map the code worked on,
\* the event's own when it had one, else the new map stored at line 139
withSource(event, source) == MapPut(event, "source", JObj(source))

\* Enricher.EnrichEvent on a non-nil event; asn, city and ptr are what the
\* lookups return if they are made.  Result: the event afterwards and the
\* lookups made.
EnrichEvent(e, event, asn, city, ptr) ==
    LET source == MapAt(event, "source")
        ipStr  == StringAt(source, "ip")
    IN  IF ipStr = "" \/ ~IsIP(ipStr)
        THEN [event |-> withSource(event, source), lookups |-> {}]
        ELSE LET s1 == IF e.asnDB /\ ~asn.err THEN setAS(source, asn) ELSE source
                 s2 == IF e.geoDB /\ ~city.err
                       THEN MapPut(s1, "geo", JObj(setGeo(MapAt(s1, "geo"), city)))
                       ELSE s1
                 s3 == IF e.dns /\ ptr # "" THEN MapPut(s2, "domain", JStr(ptr)) ELSE s2
             IN  [event   |-> withSource(event, s3),
                  lookups |-> (IF e.asnDB THEN {"asn"} ELSE {})
                              \cup (IF e.geoDB THEN {"geo"} ELSE {})
                              \cup (IF e.dns THEN {"ptr"} ELSE {})]

\* NewEnricher
NewEnricher(e) == [pc |-> "ready", e |-> e]

EnricherIdle == enrich = NewEnricher([asnDB |-> FALSE, geoDB |-> FALSE, dns |-> FALSE])

(***************************************************************************)
(* Each specification runs one component; the variables of the others     *)
(* keep the values below.                                                  *)
(***************************************************************************)
LimiterIdle ==
    /\ rpsArg = 0
    /\ limiter = NewPerSensorLimiter(0)
    /\ calls = <<>>

OutboxIdle ==
    /\ outbox = newDiskOutbox(EmptyDir, 0)
    /\ disk = EmptyDir
    /\ clock = 0
    /\ last = NoOp

NoAcct == [written |-> {}, spooled |-> {}, drained |-> {}, overflow |-> {},
           unreadable |-> {}, lost |-> {}, enqLost |-> {}, enq |-> <<>>, sent |-> <<>>,
           cut |-> {}, wlog |-> <<>>, snaps |-> <<>>, direct |-> <<>>,
           stamps |-> <<>>]

WriterIdle ==
    /\ writer = newClickHouseWriter("clickhouse", 0, 0, 0)
    /\ th = [t \in Threads |-> IdleThread]
    /\ sink = {}
    /\ env = [insertFails |-> 0, diskFaults |-> 0, maxWrites |-> 0, history |-> FALSE]
    /\ nextEv = 1
    /\ acct = NoAcct

(***************************************************************************)
(* cmd/loom: the ProcessBatch closure of main.  Each request's goroutine   *)
(* enriches and writes the events of its batch; calls keeps, in the order  *)
(* they were made, the calls of EnrichEvent and Write of all goroutines.   *)
(***************************************************************************)
Workers == {1, 2}

IdleWorker == [pc |-> "idle", n |-> 0, i |-> 0, err |-> "nil"]

\* mutant: the loop goes on after a failed Write
afterWrite_GoesOn(err) == "next"

\* if err := out.Write(ev); err != nil { return err }
afterWrite(err) == IF err # "nil" THEN "return" ELSE "next"

PipelineIdle == pipe = [w |-> [g \in Workers |-> IdleWorker], calls |-> <<>>]

HandlerIdle == http = NoExchange

\* the components beside the handler's
AuxIdle == ValidatorIdle /\ EnricherIdle /\ PipelineIdle

(***************************************************************************)
(* SpecLimiter: a limiter built with one of RpsInputs receives Allow calls *)
(* for any sensor with any clock reading (nowFn is injectable).            *)
(***************************************************************************)
LimiterInit ==
    /\ rpsArg \in RpsInputs
    /\ limiter = NewPerSensorLimiter(rpsArg)
    /\ calls = <<>>
    /\ OutboxIdle
    /\ WriterIdle
    /\ HandlerIdle
    /\ AuxIdle

AllowCall ==
    /\ Len(calls) < MaxCalls
    /\ \E s \in Sensors, t \in Seconds :
         LET r == Allow(limiter, s, t)
         IN  /\ limiter' = r.p
             /\ calls' = Append(calls, [sensor |-> s, now |-> t, ok |-> r.ok])
    /\ UNCHANGED <<rpsArg, auxVars, obVars, wrVars, http>>

LimiterNext == AllowCall

SpecLimiter == LimiterInit /\ [][LimiterNext]_vars

(***************************************************************************)
(* SpecOutbox: one outbox on an initially empty directory.  Batches are    *)
(* enqueued, files removed by name, the process restarts (newDiskOutbox on *)
(* the directory as it is).  The wall clock does not go back and a restart *)
(* takes time, so a new process reads a later clock than the one before.   *)
(***************************************************************************)
Batches == UNION {[1..n -> Events] : n \in 0..MaxBatchLen}
OutboxCaps == {0, CapBytes}

OutboxInit ==
    /\ LimiterIdle
    /\ WriterIdle
    /\ HandlerIdle
    /\ AuxIdle
    /\ disk = EmptyDir
    /\ clock = 0
    /\ \E cap \in OutboxCaps : outbox = newDiskOutbox(EmptyDir, cap)
    /\ last = NoOp

ObEnqueue ==
    /\ outbox.seq < MaxSeq
    /\ Cardinality(DOMAIN disk.spool) < MaxFiles
    /\ \E batch \in Batches : \E fs \in IoOutcomes(batch) :
         LET r == enqueue(outbox, disk, batch, clock, fs)
         IN  /\ outbox' = r.o
             /\ disk' = r.d
             /\ last' = EnqueueRecord(outbox, disk, batch, r)
    /\ UNCHANGED <<clock, limVars, auxVars, wrVars, http>>

\* removeByName with the name of a listed file or with a name no longer listed
ObRemove ==
    /\ \E name \in {outbox.files[i].name : i \in 1..Len(outbox.files)} \cup {<<0, 0>>} :
         LET r == removeByName(outbox, disk, name)
         IN  /\ outbox' = r.o
             /\ disk' = r.d
             /\ last' = [NoOp EXCEPT !.op = "remove", !.err = r.err]
    /\ UNCHANGED <<clock, limVars, auxVars, wrVars, http>>

ObRestart ==
    /\ clock < MaxClock
    /\ clock' = clock + 1
    /\ outbox' = newDiskOutbox(disk, outbox.maxBytes)
    /\ last' = [NoOp EXCEPT !.op = "reload"]
    /\ UNCHANGED <<disk, limVars, auxVars, wrVars, http>>

ObTick ==
    /\ clock < MaxClock
    /\ clock' = clock + 1
    /\ UNCHANGED <<outbox, disk, last, limVars, auxVars, wrVars, http>>

OutboxNext == ObEnqueue \/ ObRemove \/ ObRestart \/ ObTick

SpecOutbox == OutboxInit /\ [][OutboxNext]_vars

(***************************************************************************)
(* SpecWriter: goroutines run ingest requests and Flush calls against one  *)
(* writer.  The sink may fail MaxInsertFails inserts and then accepts      *)
(* every insert; the file system may fail MaxDiskFaults times.             *)
(***************************************************************************)
WriterInit ==
    /\ \E kind \in WriterKinds, rc \in RetryConfigs, bs \in BatchSizeConfigs :
          writer = newClickHouseWriter(kind, rc.backoff, rc.max, bs)
    /\ \E cap \in WriterCaps : outbox = newDiskOutbox(EmptyDir, cap)
    /\ disk = EmptyDir
    /\ clock = ZeroTime + 1
    /\ last = NoOp
    /\ th = [t \in Threads |-> IdleThread]
    /\ sink = {}
    /\ env = [insertFails |-> MaxInsertFails, diskFaults |-> MaxDiskFaults,
              maxWrites |-> MaxWrites, history |-> FALSE]
    /\ nextEv = 1
    /\ acct = NoAcct
    /\ LimiterIdle
    /\ HandlerIdle
    /\ AuxIdle

\* the call of goroutine t returns err
Return(t, thr, err) ==
    /\ th' = [th EXCEPT ![t] = AfterFlush(thr, err)]
    /\ last' = ReturnRecord(t, thr, err)

\* goroutine t goes on as thr
Continue(t, thr) ==
    /\ th' = [th EXCEPT ![t] = thr]
    /\ last' = NoOp

\* flushBuf returned nil: Flush goes on to drainOutbox, which returns at once
\* without an outbox; esWriter.Flush is flushBuf alone
AfterFlushBuf(t, thr) ==
    IF writer.hasOutbox
    THEN Continue(t, [thr EXCEPT !.pc = "drainGate", !.batch = <<>>, !.chunks = <<>>])
    ELSE Return(t, thr, "nil")

\* an ingest request with k events arrives: the handler calls ProcessBatch
StartRequest(t) ==
    /\ th[t].pc = "idle"
    /\ \E k \in 1..MaxRequestLen :
          /\ nextEv + k - 1 <= env.maxWrites
          /\ Continue(t, [IdleThread EXCEPT !.pc = "write", !.op = "request",
                                            !.todo = [j \in 1..k |-> nextEv + j - 1]])
          /\ nextEv' = nextEv + k
    /\ UNCHANGED <<writer, sink, env, acct, outbox, disk, clock, limVars, auxVars, http>>

\* Flush (Close at shutdown runs the same two calls)
StartFlush(t) ==
    /\ th[t].pc = "idle"
    /\ Continue(t, [IdleThread EXCEPT !.pc = "flushBuf", !.op = "flush"])
    /\ UNCHANGED <<writer, sink, env, nextEv, acct, outbox, disk, clock, limVars, auxVars, http>>

\* Write: append under the mutex, then Flush when the threshold is reached
WriteStep(t) ==
    /\ th[t].pc = "write"
    /\ LET ev  == Head(th[t].todo)
           buf == Append(writer.buf, ev)
       IN  /\ writer' = [writer EXCEPT !.buf = buf]
           /\ acct' = [acct EXCEPT !.written = @ \cup {ev},
                                   !.wlog = IF env.history THEN Append(@, ev) ELSE @]
           /\ IF Len(buf) >= writer.flush
              THEN Continue(t, [th[t] EXCEPT !.pc = "flushBuf"])
              ELSE Return(t, th[t], "nil")
    /\ UNCHANGED <<sink, env, nextEv, outbox, disk, clock, limVars, auxVars, http>>

\* flushBuf, first critical section: take the buffer
FlushBufStep(t) ==
    /\ th[t].pc = "flushBuf"
    /\ IF Len(writer.buf) = 0
       THEN /\ AfterFlushBuf(t, th[t])
            /\ UNCHANGED writer
       ELSE \E r \in {takeBuffer(writer)} :
               /\ Continue(t, [th[t] EXCEPT !.pc = "insert", !.batch = r.batch])
               /\ writer' = r.c
    /\ acct' = IF env.history /\ Len(writer.buf) > 0
               THEN [acct EXCEPT !.snaps = Append(@, writer.buf)]
               ELSE acct
    /\ UNCHANGED <<sink, env, nextEv, outbox, disk, clock, limVars, auxVars, http>>

\* flushBuf: insertBatch (the bulk request of esWriter) and what follows its result
InsertStep(t) ==
    /\ th[t].pc = "insert"
    /\ \/ /\ sink' = sink \cup Range(th[t].batch)
          /\ AfterFlushBuf(t, th[t])
          /\ acct' = IF env.history THEN [acct EXCEPT !.direct = Append(@, th[t].batch)]
                     ELSE acct
          /\ UNCHANGED <<writer, env>>
       \/ /\ env.insertFails > 0
          /\ env' = [env EXCEPT !.insertFails = @ - 1]
          /\ LET thr == [th[t] EXCEPT !.failed = th[t].batch]
                 how == onInsertError(writer.hasOutbox)
             IN  IF how = "spool"
                 THEN /\ Continue(t, [thr EXCEPT !.pc = "spool",
                                 !.chunks = splitBatches(thr.batch, writer.outboxBatchSize)])
                      /\ UNCHANGED <<writer, acct>>
                 ELSE /\ Return(t, thr, IF how = "return_err" THEN "insert_err" ELSE "nil")
                      /\ writer' = [writer EXCEPT !.buf = bufAfterFailedInsert(@, thr.batch)]
                      /\ acct' = [acct EXCEPT !.lost = @ \cup Range(thr.batch)]
          /\ UNCHANGED sink
    /\ UNCHANGED <<nextEv, outbox, disk, clock, limVars, auxVars, http>>

\* flushBuf: c.outbox.enqueue of the next chunk
SpoolStep(t) ==
    /\ th[t].pc = "spool"
    /\ LET chunk == Head(th[t].chunks)
       IN  \E fs \in IoOutcomes(chunk) :
              /\ fs.io # "ok" => env.diskFaults > 0
              /\ env' = IF fs.io = "ok" THEN env ELSE [env EXCEPT !.diskFaults = @ - 1]
              /\ \E r \in {enqueue(outbox, disk, chunk, clock, fs)} :
                    /\ outbox' = r.o
                    /\ disk' = r.d
                    /\ IF r.err # "nil"
                       THEN /\ Return(t, th[t], "enqueue_err")
                            /\ acct' = [acct EXCEPT !.enqLost = @ \cup
                                           UNION {Range(th[t].chunks[j]) : j \in 1..Len(th[t].chunks)}]
                       ELSE /\ IF Len(th[t].chunks) > 1
                               THEN Continue(t, [th[t] EXCEPT !.chunks = Tail(@)])
                               ELSE AfterFlushBuf(t, th[t])
                            /\ acct' = [acct EXCEPT !.spooled = @ \cup Range(chunk),
                                                    !.enq = Append(@, SpoolName(clock, r.o.seq)),
                                                    !.cut = @ \cup (DOMAIN disk.spool \ DOMAIN r.d.spool),
                                                    !.overflow = @ \cup ((InFiles(disk) \cup Range(chunk)) \ InFiles(r.d))]
    /\ UNCHANGED <<writer, sink, nextEv, clock, limVars, auxVars, http>>

\* drainOutbox: the nextRetryAt gate
DrainGateStep(t) ==
    /\ th[t].pc = "drainGate"
    /\ IF drainDue(writer, clock)
       THEN Continue(t, [th[t] EXCEPT !.pc = "drainOldest", !.i = 0])
       ELSE Return(t, th[t], "nil")
    /\ UNCHANGED <<writer, sink, env, nextEv, acct, outbox, disk, clock, limVars, auxVars, http>>

\* the end of one iteration of the drain loop
NextIteration(t) ==
    IF th[t].i + 1 < DrainLimit
    THEN Continue(t, [th[t] EXCEPT !.pc = "drainOldest", !.i = @ + 1, !.batch = <<>>,
                                   !.meta = NoMeta])
    ELSE Return(t, th[t], "nil")

\* drainOutbox: c.outbox.oldestMeta()
DrainOldestStep(t) ==
    /\ th[t].pc = "drainOldest"
    /\ LET m == oldestMeta(outbox)
       IN  IF m.ok
           THEN /\ Continue(t, [th[t] EXCEPT !.pc = "drainRead", !.meta = m.meta,
                                              !.tried = @ + 1])
                /\ UNCHANGED writer
           ELSE /\ writer' = drainOnEmpty(writer)
                /\ Return(t, th[t], "nil")
    /\ UNCHANGED <<sink, env, nextEv, acct, outbox, disk, clock, limVars, auxVars, http>>

\* drainOutbox: readBatchFile; an unreadable file is removed and skipped
DrainReadStep(t) ==
    /\ th[t].pc = "drainRead"
    /\ LET name == th[t].meta.name
           here == name \in DOMAIN disk.spool
       IN  \/ /\ here
              /\ Continue(t, [th[t] EXCEPT !.pc = "drainInsert", !.batch = disk.spool[name]])
              /\ UNCHANGED <<outbox, disk, env, acct>>
           \/ /\ ~here \/ env.diskFaults > 0
              /\ env' = IF here THEN [env EXCEPT !.diskFaults = @ - 1] ELSE env
              /\ LET r == removeByName(outbox, disk, name)
                 IN  /\ outbox' = r.o
                     /\ disk' = r.d
              /\ acct' = IF here THEN [acct EXCEPT !.unreadable = @ \cup Range(disk.spool[name]),
                                                    !.cut = @ \cup {name}]
                         ELSE acct
              /\ NextIteration(t)
    /\ UNCHANGED <<writer, sink, nextEv, clock, limVars, auxVars, http>>

\* drainOutbox: insertBatch of the file's events
DrainInsertStep(t) ==
    /\ th[t].pc = "drainInsert"
    /\ \/ /\ sink' = sink \cup Range(th[t].batch)
          /\ Continue(t, [th[t] EXCEPT !.pc = "drainRemove"])
          /\ acct' = [acct EXCEPT !.drained = @ \cup Range(th[t].batch),
                                  !.sent = Append(@, th[t].meta.name)]
          /\ UNCHANGED <<writer, env>>
       \/ /\ env.insertFails > 0
          /\ env' = [env EXCEPT !.insertFails = @ - 1]
          /\ writer' = drainOnInsertError(writer, clock)
          /\ Return(t, th[t], "nil")
          /\ UNCHANGED <<sink, acct>>
    /\ UNCHANGED <<nextEv, outbox, disk, clock, limVars, auxVars, http>>

\* drainOutbox: removeByName after the insert succeeded
DrainRemoveStep(t) ==
    /\ th[t].pc = "drainRemove"
    /\ LET r == removeAfterDrain(outbox, disk, th[t].meta.name)
       IN  /\ outbox' = r.o
           /\ disk' = r.d
    /\ NextIteration(t)
    /\ UNCHANGED <<writer, sink, env, nextEv, acct, clock, limVars, auxVars, http>>

\* time passes
WriterTick ==
    /\ clock < MaxWriterClock \/ clock < writer.nextRetryAt
    /\ clock' = clock + 1
    /\ last' = NoOp
    /\ UNCHANGED <<outbox, disk, wrVars, limVars, auxVars, http>>

ThreadStep(t) ==
    \/ WriteStep(t) \/ FlushBufStep(t) \/ InsertStep(t) \/ SpoolStep(t)
    \/ DrainGateStep(t) \/ DrainOldestStep(t) \/ DrainReadStep(t)
    \/ DrainInsertStep(t) \/ DrainRemoveStep(t)

WriterNext ==
    \/ \E t \in Threads : StartRequest(t)
    \/ \E t \in Threads : StartFlush(t)
    \/ \E t \in Threads : ThreadStep(t)
    \/ WriterTick

SpecWriter == WriterInit /\ [][WriterNext]_vars

(***************************************************************************)
(* LiveSpecWriter: the ClickHouse writer with its outbox, where every      *)
(* started call runs on, an idle goroutine calls Flush again and again,    *)
(* and time passes while the drain is waiting for nextRetryAt.             *)
(***************************************************************************)
LiveWriterInit == WriterInit /\ writer.hasOutbox

LiveSpecWriter ==
    /\ LiveWriterInit
    /\ [][WriterNext]_vars
    /\ \A t \in Threads : WF_vars(ThreadStep(t))
    /\ \A t \in Threads : WF_vars(StartFlush(t))
    /\ WF_vars(WriterTick)

(***************************************************************************)
(* SpecHandler: requests arrive one after the other at a handler whose     *)
(* limiter allows HandlerRPS requests per sensor and second; ServeHTTP     *)
(* runs as one step.                                                       *)
(***************************************************************************)
Methods == {"POST", "GET"}
ContentTypes == {"application/json", "text/plain"}
AuthzHeaders ==
    {[scheme |-> "", token |-> ""], [scheme |-> "Basic", token |-> "tok-a"],
     [scheme |-> "Bearer", token |-> "tok-a"], [scheme |-> "bearer", token |-> "tok-b"],
     [scheme |-> "BEARER", token |-> "tok-a"], [scheme |-> "Bearer", token |-> "unknown"],
     [scheme |-> "Bearer", token |-> "bearer tok-b"]}
SpipIDs == {"", "sensor-a", "sensor-b"}
Elements == {"null", "small", "large"}
Arrays == UNION {[1..n -> Elements] : n \in 0..(MaxEventsPerBatch + 1)}
Bodies ==
    {[kind |-> k, elems |-> <<>>] : k \in {"too_large", "read_error", "not_array", "bad_json"}}
    \cup {[kind |-> "array", elems |-> e] : e \in Arrays}
Requests == [method : Methods, contentType : ContentTypes, authz : AuthzHeaders,
             xSpipID : SpipIDs, body : Bodies]

HandlerInit ==
    /\ rpsArg = HandlerRPS
    /\ limiter = NewPerSensorLimiter(rpsArg)
    /\ calls = <<>>
    /\ http = NoExchange
    /\ OutboxIdle
    /\ WriterIdle
    /\ AuxIdle

\* a request arrives
Arrive ==
    /\ http.pc = "idle"
    /\ \E req \in Requests : http' = [pc |-> "received", req |-> req]
    /\ UNCHANGED <<limVars, auxVars, obVars, wrVars>>

\* Handler.ServeHTTP
Serve ==
    /\ http.pc = "received"
    /\ \E pbErr \in BOOLEAN :
          LET r == ServeHTTP(limiter, http.req, clock, pbErr)
          IN  /\ http' = [pc |-> "answered", req |-> http.req, resp |-> r.resp, before |-> limiter]
              /\ limiter' = r.limiter
    /\ UNCHANGED <<rpsArg, auxVars, calls, obVars, wrVars>>

\* the exchange is over
Finish ==
    /\ http.pc = "answered"
    /\ http' = NoExchange
    /\ UNCHANGED <<limVars, auxVars, obVars, wrVars>>

\* a second passes
HandlerTick ==
    /\ http.pc = "idle"
    /\ clock < MaxHandlerSecond
    /\ clock' = clock + 1
    /\ UNCHANGED <<outbox, disk, last, limVars, auxVars, wrVars, http>>

HandlerNext == Arrive \/ Serve \/ Finish \/ HandlerTick

SpecHandler == HandlerInit /\ [][HandlerNext]_vars

(***************************************************************************)
(* SpecBurst: a handler whose limiter allows BurstRPS requests per sensor  *)
(* and second receives valid requests only, one after the other; calls     *)
(* keeps the sensor, the second and the response of each.                  *)
(***************************************************************************)
ValidRequests ==
    {req \in Requests :
        /\ req.method = "POST"
        /\ req.contentType = "application/json"
        /\ HasBearerPrefix(req.authz)
        /\ Validate(TokenOf(req.authz)) # ""
        /\ req.xSpipID \in {"", Validate(TokenOf(req.authz))}
        /\ CheckBody(req.body) = "ok"}

BurstInit ==
    /\ rpsArg = BurstRPS
    /\ limiter = NewPerSensorLimiter(rpsArg)
    /\ calls = <<>>
    /\ http = NoExchange
    /\ OutboxIdle
    /\ WriterIdle
    /\ AuxIdle

\* a valid request arrives
BurstArrive ==
    /\ http.pc = "idle"
    /\ Len(calls) < MaxBurst
    /\ \E req \in ValidRequests : http' = [pc |-> "received", req |-> req]
    /\ UNCHANGED <<limVars, auxVars, obVars, wrVars>>

\* Handler.ServeHTTP, the response being recorded
BurstServe ==
    /\ http.pc = "received"
    /\ \E pbErr \in BOOLEAN :
          LET r == ServeHTTP(limiter, http.req, clock, pbErr)
          IN  /\ http' = [pc |-> "answered", req |-> http.req, resp |-> r.resp, before |-> limiter]
              /\ limiter' = r.limiter
              /\ calls' = Append(calls, [sensor |-> Validate(TokenOf(http.req.authz)),
                                         now |-> clock, resp |-> r.resp])
    /\ UNCHANGED <<rpsArg, auxVars, obVars, wrVars>>

BurstNext == BurstArrive \/ BurstServe \/ Finish \/ HandlerTick

SpecBurst == BurstInit /\ [][BurstNext]_vars

(***************************************************************************)
(* SpecValidator: two goroutines call Validate and Update of one Validator *)
(* built by NewValidator.                                                  *)
(***************************************************************************)
ValidatorInit ==
    /\ \E m \in TokenMaps : \E entries \in EntriesOf(m) :
          validator = NewValidator(m, entries)
    /\ callers = [c \in Callers |-> IdleCaller]
    /\ LimiterIdle
    /\ OutboxIdle
    /\ WriterIdle
    /\ HandlerIdle
    /\ EnricherIdle
    /\ PipelineIdle

\* Validate is called; the empty token returns at once
ValidateCall(c) ==
    /\ callers[c].pc = "idle"
    /\ validator.ops < MaxAuthOps
    /\ \E token \in Tokens :
          callers' = [callers EXCEPT ![c] =
              [IdleCaller EXCEPT !.pc = IF token = <<>> THEN "done" ELSE "rlock",
                                 !.op = "Validate", !.token = token,
                                 !.seen = {validator.cur}]]
    /\ validator' = [validator EXCEPT !.ops = @ + 1]
    /\ UNCHANGED <<limVars, obVars, wrVars, http, enrich, pipe>>

\* v.mu.RLock()
RLockStep(c) ==
    /\ callers[c].pc = "rlock"
    /\ CanRLock(validator)
    /\ validator' = [validator EXCEPT !.readers = @ \cup {c}]
    /\ callers' = [callers EXCEPT ![c].pc = "range"]
    /\ UNCHANGED <<limVars, obVars, wrVars, http, enrich, pipe>>

\* the range over v.tokens, the return and the deferred RUnlock
RangeStep(c) ==
    /\ callers[c].pc = "range"
    /\ callers' = [callers EXCEPT
          ![c].pc = "done",
          ![c].read = validator.ptr,
          ![c].result = ScanFrom(validator.heap[validator.ptr], validator.len,
                                 callers[c].token, 1)]
    /\ validator' = [validator EXCEPT !.readers = @ \ {c}]
    /\ UNCHANGED <<limVars, obVars, wrVars, http, enrich, pipe>>

\* Update is called and builds its entries
UpdateCall(c) ==
    /\ callers[c].pc = "idle"
    /\ validator.ops < MaxAuthOps
    /\ \E m \in TokenMaps : \E entries \in EntriesOf(m) :
          callers' = [callers EXCEPT ![c] =
              [IdleCaller EXCEPT !.pc = "lock", !.op = "Update", !.map = m,
                                 !.entries = entries]]
    /\ validator' = [validator EXCEPT !.ops = @ + 1]
    /\ UNCHANGED <<limVars, obVars, wrVars, http, enrich, pipe>>

\* v.mu.Lock()
LockStep(c) ==
    /\ callers[c].pc = "lock"
    /\ CanLock(validator)
    /\ validator' = [validator EXCEPT !.writer = c]
    /\ callers' = [callers EXCEPT ![c].pc = "store_ptr"]
    /\ UNCHANGED <<limVars, obVars, wrVars, http, enrich, pipe>>

\* v.tokens = entries: the pointer of the slice
StorePtrStep(c) ==
    /\ callers[c].pc = "store_ptr"
    /\ validator' = [validator EXCEPT !.heap = Append(@, callers[c].entries),
                                      !.maps = Append(@, callers[c].map),
                                      !.ptr = Len(validator.heap) + 1]
    /\ callers' = [callers EXCEPT ![c].pc = "store_len", ![c].read = Len(validator.heap) + 1]
    /\ UNCHANGED <<limVars, obVars, wrVars, http, enrich, pipe>>

\* v.tokens = entries: the length of the slice
StoreLenStep(c) ==
    /\ callers[c].pc = "store_len"
    /\ validator' = [validator EXCEPT !.len = Len(callers[c].entries)]
    /\ callers' = [callers EXCEPT ![c].pc = "unlock"]
    /\ UNCHANGED <<limVars, obVars, wrVars, http, enrich, pipe>>

\* v.mu.Unlock() and the return of Update
UnlockStep(c) ==
    /\ callers[c].pc = "unlock"
    /\ validator' = [validator EXCEPT !.writer = 0, !.cur = callers[c].read]
    /\ callers' = [d \in Callers |->
          IF d = c THEN [callers[c] EXCEPT !.pc = "done"]
          ELSE IF callers[d].op = "Validate" /\ callers[d].pc # "idle"
               THEN [callers[d] EXCEPT !.seen = @ \cup {callers[c].read}]
               ELSE callers[d]]
    /\ UNCHANGED <<limVars, obVars, wrVars, http, enrich, pipe>>

\* the caller has its result
ReturnStep(c) ==
    /\ callers[c].pc = "done"
    /\ callers' = [callers EXCEPT ![c] = IdleCaller]
    /\ UNCHANGED <<validator, limVars, obVars, wrVars, http, enrich, pipe>>

ValidatorNext ==
    \E c \in Callers :
        \/ ValidateCall(c) \/ RLockStep(c) \/ RangeStep(c)
        \/ UpdateCall(c) \/ LockStep(c) \/ StorePtrStep(c) \/ StoreLenStep(c)
        \/ UnlockStep(c) \/ ReturnStep(c)

SpecValidator == ValidatorInit /\ [][ValidatorNext]_vars

(***************************************************************************)
(* SpecTokens: the credential table of a process.  main builds the         *)
(* Validator from the tokens of a configuration that config.Load accepted  *)
(* (Load ends in Config.validate); a reload of the configuration goes      *)
(* through Load again and hands the tokens to Update.  callers[1] keeps    *)
(* the last Load: the tokens it read and what validate returned.           *)
(***************************************************************************)
ConfigTokens == {<<1>>, <<1, 2>>}
ConfigSensors == {"sensor-a", "sensor-b"}
\* c.Auth.Tokens after setDefaults and applyEnv: any map from tokens to sensors
ConfigTokenMaps == UNION {[T -> ConfigSensors] : T \in SUBSET ConfigTokens}

LoadRecord(m, entries, err) ==
    [IdleCaller EXCEPT !.op = "Load", !.map = m, !.entries = entries, !.result = err]

TokensInit ==
    /\ \E m \in ConfigTokenMaps : \E entries \in EntriesOf(m) :
          /\ validate(entries) = "nil"
          /\ validator = NewValidator(m, entries)
          /\ callers = [c \in Callers |->
                           IF c = 1 THEN LoadRecord(m, entries, "nil") ELSE IdleCaller]
    /\ LimiterIdle
    /\ OutboxIdle
    /\ WriterIdle
    /\ HandlerIdle
    /\ EnricherIdle
    /\ PipelineIdle

\* a reload whose configuration validate accepts: Update with its tokens
ReloadAccepted ==
    /\ validator.ops < MaxAuthOps
    /\ \E m \in ConfigTokenMaps : \E entries \in EntriesOf(m) :
          /\ validate(entries) = "nil"
          /\ validator' = Update(validator, m, entries)
          /\ callers' = [callers EXCEPT ![1] = LoadRecord(m, entries, "nil")]
    /\ UNCHANGED <<limVars, obVars, wrVars, http, enrich, pipe>>

\* a reload whose configuration validate rejects: Load returns the error
\* and the Validator is left alone
ReloadRejected ==
    /\ validator.ops < MaxAuthOps
    /\ \E m \in ConfigTokenMaps : \E entries \in EntriesOf(m) :
          /\ validate(entries) # "nil"
          /\ validator' = [validator EXCEPT !.ops = @ + 1]
          /\ callers' = [callers EXCEPT ![1] = LoadRecord(m, entries, validate(entries))]
    /\ UNCHANGED <<limVars, obVars, wrVars, http, enrich, pipe>>

TokensNext == ReloadAccepted \/ ReloadRejected

SpecTokens == TokensInit /\ [][TokensNext]_vars

(***************************************************************************)
(* SpecEnrich: an Enricher with any of its databases and its DNS enricher  *)
(* receives events one after the other.                                    *)
(***************************************************************************)
IpValues == {Absent, JStr("8.8.8.8"), JStr(""), JStr("not-an-ip"), JNum(8)}
AsValues ==
    {Absent, JStr("AS1"), JObj([tag |-> JStr("t")]),
     JObj([tag |-> JStr("t"), organization |-> JStr("acme")]),
     JObj([number |-> JNum(1),
           organization |-> JObj([name |-> JStr("old"), id |-> JStr("o1")])])}
GeoValues ==
    {Absent, JStr("nowhere"), JObj([continent |-> JStr("EU"), city_name |-> JStr("old")])}
DomainValues == {Absent, JStr("old.example")}
SourceObjects ==
    {ObjOf([ip |-> i, port |-> JNum(443), as |-> a, geo |-> g, domain |-> d]) :
        i \in IpValues, a \in AsValues, g \in GeoValues, d \in DomainValues}
SourceValues == {Absent, JNull, JStr("8.8.8.8")} \cup {JObj(o) : o \in SourceObjects}
InputEvents == {ObjOf([event |-> JObj([id |-> JStr("abc")]), source |-> sv]) : sv \in SourceValues}

EnrichInit ==
    /\ \E e \in Enrichers : enrich = NewEnricher(e)
    /\ LimiterIdle
    /\ OutboxIdle
    /\ WriterIdle
    /\ HandlerIdle
    /\ ValidatorIdle
    /\ PipelineIdle

\* Enricher.EnrichEvent
EnrichCall ==
    /\ enrich.pc = "ready"
    /\ \E event \in InputEvents, asn \in ASNResults, city \in CityResults, ptr \in PTRResults :
          LET r == EnrichEvent(enrich.e, event, asn, city, ptr)
          IN  enrich' = [pc |-> "done", e |-> enrich.e, in |-> event,
                         out |-> r.event, lookups |-> r.lookups]
    /\ UNCHANGED <<limVars, obVars, wrVars, http, validator, callers, pipe>>

\* the caller goes on with the event
EnrichDone ==
    /\ enrich.pc = "done"
    /\ enrich' = NewEnricher(enrich.e)
    /\ UNCHANGED <<limVars, obVars, wrVars, http, validator, callers, pipe>>

EnrichNext == EnrichCall \/ EnrichDone

SpecEnrich == EnrichInit /\ [][EnrichNext]_vars

(***************************************************************************)
(* SpecPipeline: two requests run ProcessBatch concurrently; out.Write     *)
(* fails or not.                                                           *)
(***************************************************************************)
PipelineInit ==
    /\ PipelineIdle
    /\ LimiterIdle
    /\ OutboxIdle
    /\ WriterIdle
    /\ HandlerIdle
    /\ ValidatorIdle
    /\ EnricherIdle

\* ProcessBatch is called with a batch of n events
PBCall(g) ==
    /\ pipe.w[g].pc = "idle"
    /\ \E n \in 0..MaxPipeLen :
          pipe' = [pipe EXCEPT !.w[g] = [pc |-> "range", n |-> n, i |-> 1, err |-> "nil"]]
    /\ UNCHANGED <<limVars, obVars, wrVars, http, validator, callers, enrich>>

\* the next event of the range: enricher.EnrichEvent(ev)
PBEnrich(g) ==
    /\ pipe.w[g].pc = "range"
    /\ pipe.w[g].i <= pipe.w[g].n
    /\ pipe' = [pipe EXCEPT !.w[g].pc = "write",
                            !.calls = Append(@, [g |-> g, op |-> "EnrichEvent",
                                                 i |-> pipe.w[g].i, err |-> "nil"])]
    /\ UNCHANGED <<limVars, obVars, wrVars, http, validator, callers, enrich>>

\* out.Write(ev) and the test of its error
PBWrite(g) ==
    /\ pipe.w[g].pc = "write"
    /\ \E err \in {"nil", "write error"} :
          pipe' = [pipe EXCEPT
              !.w[g] = IF afterWrite(err) = "return"
                       THEN [@ EXCEPT !.pc = "returned", !.err = err]
                       ELSE [@ EXCEPT !.pc = "range", !.i = @ + 1],
              !.calls = Append(@, [g |-> g, op |-> "Write", i |-> pipe.w[g].i, err |-> err])]
    /\ UNCHANGED <<limVars, obVars, wrVars, http, validator, callers, enrich>>

\* the range is over: return nil
PBReturn(g) ==
    /\ pipe.w[g].pc = "range"
    /\ pipe.w[g].i > pipe.w[g].n
    /\ pipe' = [pipe EXCEPT !.w[g].pc = "returned"]
    /\ UNCHANGED <<limVars, obVars, wrVars, http, validator, callers, enrich>>

PipelineNext == \E g \in Workers : PBCall(g) \/ PBEnrich(g) \/ PBWrite(g) \/ PBReturn(g)

SpecPipeline == PipelineInit /\ [][PipelineNext]_vars

(***************************************************************************)
(* SpecBackoff: the retry state of a clickHouseWriter with an outbox,      *)
(* built from every OutboxConfig, while the sink keeps failing the drain's *)
(* inserts.  last holds the delay the last failure scheduled.              *)
(***************************************************************************)
\* OutboxConfig.RetryBackoff
BackoffInputs == {-1, 0, 1, 2, 3, 20}
\* OutboxConfig.RetryMaxBackoff
MaxBackoffInputs == {-1, 0, 1, 2, 5, 31}

BackoffInit ==
    /\ \E rb \in BackoffInputs, rm \in MaxBackoffInputs :
          writer = newClickHouseWriter("clickhouse+outbox", rb, rm, 0)
    /\ outbox = newDiskOutbox(EmptyDir, 0)
    /\ disk = EmptyDir
    /\ clock = ZeroTime + 1
    /\ last = NoOp
    /\ th = [t \in Threads |-> IdleThread]
    /\ sink = {}
    /\ env = [insertFails |-> MaxBackoffFails, diskFaults |-> 0, maxWrites |-> 0,
              history |-> FALSE]
    /\ nextEv = 1
    /\ acct = NoAcct
    /\ LimiterIdle
    /\ HandlerIdle
    /\ AuxIdle

\* a drainOutbox call passes the gate and its insert of the oldest file fails
BackoffFail ==
    /\ drainDue(writer, clock)
    /\ env.insertFails > 0
    /\ env' = [env EXCEPT !.insertFails = @ - 1]
    /\ \E w \in {drainOnInsertError(writer, clock)} :
          /\ writer' = w
          /\ last' = [op |-> "drainFail", delay |-> w.nextRetryAt - clock]
    /\ UNCHANGED <<outbox, disk, clock, th, sink, nextEv, acct, limVars, auxVars, http>>

\* a drainOutbox call passes the gate and finds the outbox empty
BackoffEmpty ==
    /\ drainDue(writer, clock)
    /\ writer' = drainOnEmpty(writer)
    /\ last' = NoOp
    /\ UNCHANGED <<outbox, disk, clock, th, sink, env, nextEv, acct, limVars, auxVars, http>>

\* time passes
BackoffTick ==
    /\ clock < MaxBackoffClock \/ clock < writer.nextRetryAt
    /\ clock' = clock + 1
    /\ UNCHANGED <<outbox, disk, last, wrVars, limVars, auxVars, http>>

BackoffNext == BackoffFail \/ BackoffEmpty \/ BackoffTick

SpecBackoff == BackoffInit /\ [][BackoffNext]_vars

(***************************************************************************)
(* SpecBuffer: the in-memory buffer of a batching writer without outbox    *)
(* (clickHouseWriter, esWriter) under concurrent Write and Flush calls.    *)
(* acct.wlog is the order of the appends, acct.snaps the batches flushBuf  *)
(* took, acct.direct the batches the sink accepted.                        *)
(***************************************************************************)
BufferKinds == {"clickhouse", "elasticsearch"}

BufferInit ==
    /\ \E kind \in BufferKinds : writer = newClickHouseWriter(kind, 0, 0, 0)
    /\ outbox = newDiskOutbox(EmptyDir, 0)
    /\ disk = EmptyDir
    /\ clock = ZeroTime + 1
    /\ last = NoOp
    /\ th = [t \in Threads |-> IdleThread]
    /\ sink = {}
    /\ env = [insertFails |-> MaxBufferFails, diskFaults |-> 0,
              maxWrites |-> MaxBufferWrites, history |-> TRUE]
    /\ nextEv = 1
    /\ acct = NoAcct
    /\ LimiterIdle
    /\ HandlerIdle
    /\ AuxIdle

BufferNext ==
    \/ \E t \in Threads : StartRequest(t)
    \/ \E t \in Threads : StartFlush(t)
    \/ \E t \in Threads : WriteStep(t)
    \/ \E t \in Threads : FlushBufStep(t)
    \/ \E t \in Threads : InsertStep(t)

SpecBuffer == BufferInit /\ [][BufferNext]_vars

(***************************************************************************)
(* SpecNames: the names one process gives its spool files.  time.Now() is  *)
(* the wall clock, which the system may set to any reading between two     *)
(* enqueues; seq counts the enqueues of the process and is never reset, so *)
(* a process that has run for long reaches any seq with an empty outbox.   *)
(* acct.stamps lists, for every enqueue that formatted a name, the clock   *)
(* reading, the sequence number and the name, in enqueue order.            *)
(***************************************************************************)
NameBatches == {<<>>, <<1>>}
NameSeqStarts == {0, NameSeqStart}

NamesInit ==
    /\ \E s \in NameSeqStarts : outbox = [newDiskOutbox(EmptyDir, 0) EXCEPT !.seq = s]
    /\ disk = EmptyDir
    /\ clock = 0
    /\ last = NoOp
    /\ LimiterIdle
    /\ WriterIdle
    /\ HandlerIdle
    /\ AuxIdle

\* enqueue(batch) reading the wall clock as it stands
NamesEnqueue ==
    /\ Len(acct.stamps) < MaxNameEnqueues
    /\ \E batch \in NameBatches : \E fs \in IoOutcomes(batch) :
         LET r == enqueue(outbox, disk, batch, clock, fs)
         IN  /\ outbox' = r.o
             /\ disk' = r.d
             /\ last' = EnqueueRecord(outbox, disk, batch, r)
             /\ acct' = IF r.o.seq = outbox.seq THEN acct
                        ELSE [acct EXCEPT !.stamps =
                                 Append(@, [nanos |-> clock, seq |-> r.o.seq,
                                            name |-> SpoolName(clock, r.o.seq),
                                            stored |-> r.err = "nil"])]
    /\ UNCHANGED <<clock, limVars, auxVars, writer, th, sink, env, nextEv, http>>

\* removeByName of a listed file, as the drain does after an insert
NamesRemove ==
    /\ \E i \in 1..Len(outbox.files) :
         LET r == removeByName(outbox, disk, outbox.files[i].name)
         IN  /\ outbox' = r.o
             /\ disk' = r.d
             /\ last' = [NoOp EXCEPT !.op = "remove", !.err = r.err]
    /\ UNCHANGED <<clock, limVars, auxVars, wrVars, http>>

\* the wall clock moves to another reading, forwards or backwards; a reading
\* is an int64, which the padded nanos field always holds
NamesClock ==
    /\ \E now \in (0..MaxNameClock) \ {clock} :
         /\ now < 10 ^ NanoDigits
         /\ clock' = now
    /\ UNCHANGED <<outbox, disk, last, limVars, auxVars, wrVars, http>>

NamesNext == NamesEnqueue \/ NamesRemove \/ NamesClock

SpecNames == NamesInit /\ [][NamesNext]_vars

(***************************************************************************)
(* SpecClose: Enricher.Close runs while request goroutines call            *)
(* EnrichEvent on events with or without a usable source.ip.  A field      *)
(* e.asnDB / e.geoDB is TRUE when it holds a reader and FALSE when nil;    *)
(* db tells whether the reader behind it is open.  The tests               *)
(* `e.asnDB != nil` and `e.geoDB != nil` read the field without the mutex: *)
(* such a read returns the field's value or, as long as the goroutine has  *)
(* not taken the mutex after Close released it, a value the field held     *)
(* before.  A lookup on a nil reader panics between RLock and RUnlock: the *)
(* goroutine ends holding the read lock.  The maps of the event are the    *)
(* subject of SpecEnrich and are left out here.                            *)
(***************************************************************************)
Databases == {"asn", "geo"}
FieldOf(e, d) == IF d = "asn" THEN e.asnDB ELSE e.geoDB

IdleEnrichCall == [pc |-> "idle", db |-> "", synced |-> FALSE]

\* the Enricher NewEnricher returns, with its mutex and the calls in progress
ClosableEnricher(e) ==
    [e |-> e,
     db |-> [d \in Databases |-> IF FieldOf(e, d) THEN "open" ELSE "none"],
     held |-> [d \in Databases |-> {FieldOf(e, d)}],
     readers |-> {}, writer |-> FALSE,
     g |-> [w \in Workers |-> IdleEnrichCall],
     closer |-> "idle", lookups |-> {}, calls |-> 0]

\* the values an unlocked read of the field may return to goroutine w
UnlockedRead(x, w, d) ==
    {FieldOf(x.e, d)} \cup (IF x.g[w].synced THEN {} ELSE x.held[d])

\* mutant: Close takes the mutex without waiting for the readers
CloseMayLock_IgnoresReaders(x) == ~x.writer

\* e.mu.Lock() returns
CloseMayLock(x) == x.readers = {} /\ ~x.writer

CloseInit ==
    /\ \E e \in Enrichers : enrich = ClosableEnricher(e)
    /\ LimiterIdle
    /\ OutboxIdle
    /\ WriterIdle
    /\ HandlerIdle
    /\ ValidatorIdle
    /\ PipelineIdle

\* EnrichEvent is called; without a parsable source.ip it returns at once
CEStart(w) ==
    /\ enrich.g[w].pc = "idle"
    /\ enrich.calls < MaxEnrichCalls
    /\ \E ipOk \in BOOLEAN :
          enrich' = [enrich EXCEPT !.calls = @ + 1,
                                   !.g[w].pc = IF ipOk THEN "check" ELSE "idle",
                                   !.g[w].db = IF ipOk THEN "asn" ELSE ""]
    /\ UNCHANGED <<limVars, obVars, wrVars, http, validator, callers, pipe>>

\* if e.asnDB != nil / if e.geoDB != nil, outside the mutex
CECheck(w) ==
    /\ enrich.g[w].pc = "check"
    /\ \E v \in UnlockedRead(enrich, w, enrich.g[w].db) :
          enrich' = [enrich EXCEPT
              !.g[w].pc = IF v THEN "rlock"
                          ELSE IF enrich.g[w].db = "asn" THEN "check" ELSE "dns",
              !.g[w].db = IF v THEN @ ELSE IF @ = "asn" THEN "geo" ELSE ""]
    /\ UNCHANGED <<limVars, obVars, wrVars, http, validator, callers, pipe>>

\* e.mu.RLock()
CERLock(w) ==
    /\ enrich.g[w].pc = "rlock"
    /\ ~enrich.writer
    /\ enrich' = [enrich EXCEPT !.readers = @ \cup {w},
                                !.g[w].pc = "lookup",
                                !.g[w].synced = @ \/ enrich.closer = "done"]
    /\ UNCHANGED <<limVars, obVars, wrVars, http, validator, callers, pipe>>

\* e.asnDB.ASN(ip) / e.geoDB.City(ip) is called on the field as it is now
CELookup(w) ==
    /\ enrich.g[w].pc = "lookup"
    /\ LET d == enrich.g[w].db
           h == FieldOf(enrich.e, d)
       IN  enrich' = [enrich EXCEPT
               !.lookups = @ \cup {[db |-> d, at |-> "call", nil |-> ~h,
                                    state |-> enrich.db[d]]},
               !.g[w].pc = IF h THEN "inflight" ELSE "panicked"]
    /\ UNCHANGED <<limVars, obVars, wrVars, http, validator, callers, pipe>>

\* the lookup returns and e.mu.RUnlock()
CELookupDone(w) ==
    /\ enrich.g[w].pc = "inflight"
    /\ LET d == enrich.g[w].db
       IN  enrich' = [enrich EXCEPT
               !.lookups = @ \cup {[db |-> d, at |-> "return", nil |-> FALSE,
                                    state |-> enrich.db[d]]},
               !.readers = @ \ {w},
               !.g[w].pc = IF d = "asn" THEN "check" ELSE "dns",
               !.g[w].db = IF d = "asn" THEN "geo" ELSE ""]
    /\ UNCHANGED <<limVars, obVars, wrVars, http, validator, callers, pipe>>

\* the DNS part, which does not use e.mu, and the return
CEReturn(w) ==
    /\ enrich.g[w].pc = "dns"
    /\ enrich' = [enrich EXCEPT !.g[w].pc = "idle"]
    /\ UNCHANGED <<limVars, obVars, wrVars, http, validator, callers, pipe>>

\* Close is called
CloseCall ==
    /\ enrich.closer = "idle"
    /\ enrich' = [enrich EXCEPT !.closer = "lock"]
    /\ UNCHANGED <<limVars, obVars, wrVars, http, validator, callers, pipe>>

\* e.mu.Lock()
CloseLock ==
    /\ enrich.closer = "lock"
    /\ CloseMayLock(enrich)
    /\ enrich' = [enrich EXCEPT !.writer = TRUE, !.closer = "close"]
    /\ UNCHANGED <<limVars, obVars, wrVars, http, validator, callers, pipe>>

\* both readers that are there are closed and their fields set to nil
CloseDatabases ==
    /\ enrich.closer = "close"
    /\ enrich' = [enrich EXCEPT
          !.db = [d \in Databases |-> IF FieldOf(enrich.e, d) THEN "closed" ELSE @[d]],
          !.held = [d \in Databases |-> @[d] \cup {FALSE}],
          !.e = [@ EXCEPT !.asnDB = FALSE, !.geoDB = FALSE],
          !.closer = "unlock"]
    /\ UNCHANGED <<limVars, obVars, wrVars, http, validator, callers, pipe>>

\* the deferred e.mu.Unlock() and the return
CloseUnlock ==
    /\ enrich.closer = "unlock"
    /\ enrich' = [enrich EXCEPT !.writer = FALSE, !.closer = "done"]
    /\ UNCHANGED <<limVars, obVars, wrVars, http, validator, callers, pipe>>

CloseEnrichNext ==
    \/ \E w \in Workers : CEStart(w)
    \/ \E w \in Workers : CECheck(w)
    \/ \E w \in Workers : CERLock(w)
    \/ \E w \in Workers : CELookup(w)
    \/ \E w \in Workers : CELookupDone(w)
    \/ \E w \in Workers : CEReturn(w)
    \/ CloseCall
    \/ CloseLock
    \/ CloseDatabases
    \/ CloseUnlock

SpecClose == CloseInit /\ [][CloseEnrichNext]_vars

(***************************************************************************)
(* SpecDNS: request goroutines call LookupPTR of one DNSEnricher.  The     *)
(* clock counts ticks of half a second; time.Now() carries Go's monotonic  *)
(* reading, which Sub and Before use, so the clock never goes back.  The   *)
(* zero qpsTicker of a new DNSEnricher lies more than a second before any  *)
(* reading.  A name is the sequence of its pieces, "" the empty sequence.  *)
(* The first critical section of LookupPTR is one step; net.LookupAddr     *)
(* runs after it without the mutex, and its return and the cache write are *)
(* the second step.  started counts the resolver lookups started since the *)
(* window was last reset.                                                  *)
(***************************************************************************)
IPs == {"8.8.8.8", "1.1.1.1"}
EmptyName == <<>>
\* what net.LookupAddr returns: an error, no name, or names
PTRAnswers ==
    {[err |-> TRUE, names |-> <<>>], [err |-> FALSE, names |-> <<>>],
     [err |-> FALSE, names |-> << <<"dns.google", ".">> >>]}
\* cache_ttl_seconds as main passes it, in ticks
CacheTTLs == {DNSSecond, 2 * DNSSecond}
QPSArgs == -1..MaxConfiguredQPS
DNSZeroTime == 0 - DNSSecond

\* mutant: a non-positive maxQPS is kept
NewDNSEnricher_NoDefault(cacheTTL, maxQPS) ==
    [cache |-> EmptyMap, cacheTTL |-> cacheTTL, maxQPS |-> maxQPS,
     qpsTicker |-> DNSZeroTime, qpsCount |-> 0]

\* NewDNSEnricher
NewDNSEnricher(cacheTTL, maxQPS) ==
    [cache |-> EmptyMap, cacheTTL |-> cacheTTL,
     maxQPS |-> IF maxQPS <= 0 THEN DefaultQPS ELSE maxQPS,
     qpsTicker |-> DNSZeroTime, qpsCount |-> 0]

\* mutant: the window is exhausted only above maxQPS
lookupEnter_OneMore(d, key, now) ==
    IF key \in DOMAIN d.cache /\ now < d.cache[key].exp
    THEN [d |-> d, out |-> "hit", name |-> d.cache[key].name, reset |-> FALSE]
    ELSE LET reset == now - d.qpsTicker >= DNSSecond
             d1 == IF reset THEN [d EXCEPT !.qpsTicker = now, !.qpsCount = 0] ELSE d
         IN  IF d1.qpsCount > d1.maxQPS
             THEN [d |-> d1, out |-> "exhausted", name |-> EmptyName, reset |-> reset]
             ELSE [d |-> [d1 EXCEPT !.qpsCount = @ + 1], out |-> "lookup",
                   name |-> EmptyName, reset |-> reset]

\* mutant: the cache is consulted after the window
lookupEnter_WindowFirst(d, key, now) ==
    LET reset == now - d.qpsTicker >= DNSSecond
        d1 == IF reset THEN [d EXCEPT !.qpsTicker = now, !.qpsCount = 0] ELSE d
    IN  IF d1.qpsCount >= d1.maxQPS
        THEN [d |-> d1, out |-> "exhausted", name |-> EmptyName, reset |-> reset]
        ELSE IF key \in DOMAIN d.cache /\ now < d.cache[key].exp
        THEN [d |-> [d1 EXCEPT !.qpsCount = @ + 1], out |-> "hit",
              name |-> d.cache[key].name, reset |-> reset]
        ELSE [d |-> [d1 EXCEPT !.qpsCount = @ + 1], out |-> "lookup",
              name |-> EmptyName, reset |-> reset]

\* LookupPTR from d.mu.Lock() to the Unlock before the lookup, at reading
\* now: a cache hit, an exhausted window or a lookup to make
lookupEnter(d, key, now) ==
    IF key \in DOMAIN d.cache /\ now < d.cache[key].exp
    THEN [d |-> d, out |-> "hit", name |-> d.cache[key].name, reset |-> FALSE]
    ELSE LET reset == now - d.qpsTicker >= DNSSecond
             d1 == IF reset THEN [d EXCEPT !.qpsTicker = now, !.qpsCount = 0] ELSE d
         IN  IF d1.qpsCount >= d1.maxQPS
             THEN [d |-> d1, out |-> "exhausted", name |-> EmptyName, reset |-> reset]
             ELSE [d |-> [d1 EXCEPT !.qpsCount = @ + 1], out |-> "lookup",
                   name |-> EmptyName, reset |-> reset]

\* name[:len(name)-1] when the name ends in a dot
TrimDot(name) ==
    IF Len(name) > 0 /\ name[Len(name)] = "." THEN SubSeq(name, 1, Len(name) - 1) ELSE name

\* the name LookupPTR takes from the answer of net.LookupAddr
nameOf(ptr) == IF ptr.err \/ Len(ptr.names) = 0 THEN EmptyName ELSE TrimDot(ptr.names[1])

\* mutant: only names are cached
lookupStore_NamesOnly(d, key, now, ptr) ==
    IF nameOf(ptr) = EmptyName THEN d
    ELSE [d EXCEPT !.cache = [k \in (DOMAIN d.cache) \cup {key} |->
                        IF k = key THEN [name |-> nameOf(ptr), exp |-> now + d.cacheTTL]
                        ELSE d.cache[k]]]

\* the cache write after net.LookupAddr: the name, or "" for an error or an
\* empty answer, expiring cacheTTL after the reading taken before the lookup
lookupStore(d, key, now, ptr) ==
    [d EXCEPT !.cache = [k \in (DOMAIN d.cache) \cup {key} |->
                 IF k = key THEN [name |-> nameOf(ptr), exp |-> now + d.cacheTTL]
                 ELSE d.cache[k]]]

IdleLookup == [pc |-> "idle", ip |-> "", now |-> 0, out |-> "", name |-> EmptyName]

DNSInit ==
    /\ \E ttl \in CacheTTLs, qps \in QPSArgs :
          enrich = [dns |-> NewDNSEnricher(ttl, qps), qpsArg |-> qps,
                    g |-> [w \in Workers |-> IdleLookup], started |-> 0]
    /\ outbox = newDiskOutbox(EmptyDir, 0)
    /\ disk = EmptyDir
    /\ clock = 0
    /\ last = NoOp
    /\ LimiterIdle
    /\ WriterIdle
    /\ HandlerIdle
    /\ ValidatorIdle
    /\ PipelineIdle

\* LookupPTR(ip) up to the return of a cached name, the return on an
\* exhausted window, or the Unlock before net.LookupAddr
DnsEnter(w) ==
    /\ enrich.g[w].pc = "idle"
    /\ \E ip \in IPs :
          LET r == lookupEnter(enrich.dns, ip, clock)
          IN  enrich' = [enrich EXCEPT
                  !.dns = r.d,
                  !.started = (IF r.reset THEN 0 ELSE @) + (IF r.out = "lookup" THEN 1 ELSE 0),
                  !.g[w] = [pc |-> IF r.out = "lookup" THEN "lookup" ELSE "done",
                            ip |-> ip, now |-> IF r.out = "lookup" THEN clock ELSE 0,
                            out |-> r.out, name |-> r.name]]
    /\ UNCHANGED <<limVars, obVars, wrVars, http, validator, callers, pipe>>

\* net.LookupAddr(key) returns, the cache write under the mutex and the
\* return of the name
DnsStore(w) ==
    /\ enrich.g[w].pc = "lookup"
    /\ \E ptr \in PTRAnswers :
          enrich' = [enrich EXCEPT
              !.dns = lookupStore(enrich.dns, enrich.g[w].ip, enrich.g[w].now, ptr),
              !.g[w] = [IdleLookup EXCEPT !.pc = "done", !.ip = enrich.g[w].ip,
                                          !.out = "looked_up", !.name = nameOf(ptr)]]
    /\ UNCHANGED <<limVars, obVars, wrVars, http, validator, callers, pipe>>

\* the caller has the name
DnsReturn(w) ==
    /\ enrich.g[w].pc = "done"
    /\ enrich' = [enrich EXCEPT !.g[w] = IdleLookup]
    /\ UNCHANGED <<limVars, obVars, wrVars, http, validator, callers, pipe>>

\* half a second passes
DnsTick ==
    /\ clock < MaxDNSClock
    /\ clock' = clock + 1
    /\ UNCHANGED <<outbox, disk, last, limVars, auxVars, wrVars, http>>

DNSNext ==
    \/ \E w \in Workers : DnsEnter(w)
    \/ \E w \in Workers : DnsStore(w)
    \/ \E w \in Workers : DnsReturn(w)
    \/ DnsTick

SpecDNS == DNSInit /\ [][DNSNext]_vars

(***************************************************************************)
(* SpecSpool: the failure path of flushBuf.  A ClickHouse writer with an   *)
(* outbox, built with any OutboxConfig.MaxBatchSize, has taken a batch out *)
(* of its buffer and the insert of it has failed; the batch is split and   *)
(* the chunks are enqueued one by one.  th[1] is the flushBuf call:        *)
(* failed is the batch, chunks the chunks still to enqueue.  acct.stamps   *)
(* lists the spool files in the order they were made, each with the lines  *)
(* it held when enqueue returned.                                          *)
(***************************************************************************)
SpoolSizeArgs == -1..MaxSpoolBatch
SpoolBatches == UNION {[1..n -> Events] : n \in 1..MaxSpoolBatch}

SpoolInit ==
    /\ \E size \in SpoolSizeArgs :
          /\ writer = newClickHouseWriter("clickhouse+outbox", 0, 0, size)
          /\ env = [insertFails |-> MaxSpoolCalls, diskFaults |-> MaxDiskFaults,
                    maxWrites |-> 0, history |-> FALSE, batchSize |-> size]
    /\ th = [t \in Threads |-> IdleThread]
    /\ sink = {}
    /\ nextEv = 1
    /\ acct = NoAcct
    /\ outbox = newDiskOutbox(EmptyDir, 0)
    /\ disk = EmptyDir
    /\ clock = 0
    /\ last = NoOp
    /\ LimiterIdle
    /\ HandlerIdle
    /\ AuxIdle

\* flushBuf has taken a batch, insertBatch fails and the batch is split
SpoolSplit ==
    /\ th[1].pc \in {"idle", "spooled", "enqueue_err"}
    /\ env.insertFails > 0
    /\ env' = [env EXCEPT !.insertFails = @ - 1]
    /\ \E batch \in SpoolBatches :
          th' = [th EXCEPT ![1] = [IdleThread EXCEPT
                    !.pc = "spool", !.op = "flushBuf", !.batch = batch, !.failed = batch,
                    !.chunks = splitBatches(batch, writer.outboxBatchSize)]]
    /\ acct' = [acct EXCEPT !.stamps = <<>>]
    /\ UNCHANGED <<writer, sink, nextEv, outbox, disk, clock, last, limVars, auxVars, http>>

\* c.outbox.enqueue of the next chunk; an error ends flushBuf, the last
\* chunk ends it with nil
SpoolChunk ==
    /\ th[1].pc = "spool"
    /\ LET chunk == Head(th[1].chunks)
       IN  \E fs \in IoOutcomes(chunk) :
              /\ fs.io # "ok" => env.diskFaults > 0
              /\ env' = IF fs.io = "ok" THEN env ELSE [env EXCEPT !.diskFaults = @ - 1]
              /\ \E r \in {enqueue(outbox, disk, chunk, clock, fs)} :
                    /\ outbox' = r.o
                    /\ disk' = r.d
                    /\ last' = EnqueueRecord(outbox, disk, chunk, r)
                    /\ th' = [th EXCEPT
                          ![1].pc = IF r.err # "nil" THEN "enqueue_err"
                                    ELSE IF Len(th[1].chunks) > 1 THEN "spool" ELSE "spooled",
                          ![1].chunks = IF r.err # "nil" THEN @ ELSE Tail(@),
                          ![1].i = IF r.err # "nil" THEN @ ELSE @ + 1]
                    /\ acct' = IF r.err # "nil" THEN acct
                               ELSE [acct EXCEPT !.stamps =
                                       Append(@, [nanos |-> clock, seq |-> r.o.seq,
                                                  name |-> SpoolName(clock, r.o.seq),
                                                  lines |-> r.d.spool[SpoolName(clock, r.o.seq)]])]
    /\ UNCHANGED <<writer, sink, nextEv, clock, limVars, auxVars, http>>

\* time passes
SpoolTick ==
    /\ clock < MaxClock
    /\ clock' = clock + 1
    /\ UNCHANGED <<outbox, disk, last, limVars, auxVars, wrVars, http>>

SpoolNext == SpoolSplit \/ SpoolChunk \/ SpoolTick

SpecSpool == SpoolInit /\ [][SpoolNext]_vars

(***************************************************************************)
(* SpecCrash: enqueue taken apart at its calls to the file system, so that *)
(* the process can die between any two of them; a new process then builds  *)
(* its outbox from the directory as it is (newDiskOutbox, reload).  A      *)
(* process crash keeps what WriteFile, Rename and Remove have done.  th[1] *)
(* is the enqueue in progress (it holds o.mu from the start to the end),   *)
(* acct.stamps the files renamed and not deleted since, acct.spooled every *)
(* <<name, lines>> a rename has completed for, sink what a drain read,     *)
(* nextEv the number of the next enqueue call.                             *)
(***************************************************************************)
\* the batches enqueued: of one event, and of two with the larger one first or last
CrashBatches == {b \in Batches : b # <<>> /\ (Len(b) = 1 => b[1] = 1) /\ (Len(b) = 2 => b[1] # b[2])}

CrashInit ==
    /\ LimiterIdle
    /\ HandlerIdle
    /\ AuxIdle
    /\ writer = newClickHouseWriter("clickhouse+outbox", 0, 0, 0)
    /\ th = [t \in Threads |-> IdleThread]
    /\ sink = {}
    /\ env = [insertFails |-> 0, diskFaults |-> MaxDiskFaults, maxWrites |-> 0,
              history |-> FALSE]
    /\ nextEv = 1
    /\ acct = NoAcct
    /\ disk = EmptyDir
    /\ clock = 0
    /\ \E cap \in OutboxCaps : outbox = newDiskOutbox(EmptyDir, cap)
    /\ last = NoOp

WithoutName(stamps, name) == SelectSeq(stamps, LAMBDA x : x.name # name)

\* enqueue up to os.WriteFile: the body is marshalled, o.mu taken, o.seq
\* incremented and the name formatted
CrStart ==
    /\ th[1].pc = "idle"
    /\ nextEv <= MaxCrashEnqueues
    /\ nextEv' = nextEv + 1
    /\ \E batch \in CrashBatches :
          th' = [th EXCEPT ![1] = [IdleThread EXCEPT
                    !.pc = "write", !.op = "enqueue", !.batch = batch,
                    !.meta = [name |-> SpoolName(clock, outbox.seq + 1),
                              size |-> FileBytes(batch), events |-> Len(batch)]]]
    /\ outbox' = [outbox EXCEPT !.seq = @ + 1]
    /\ last' = [NoOp EXCEPT !.op = "enqueue"]
    /\ UNCHANGED <<writer, sink, env, acct, disk, clock, limVars, auxVars, http>>

\* os.WriteFile(tmp, body): the whole body, or an error that leaves no file
\* or a part of it and ends enqueue
CrWrite ==
    /\ th[1].pc = "write"
    /\ \/ /\ disk' = [disk EXCEPT !.tmp = DirPut(@, th[1].meta.name, th[1].batch)]
          /\ th' = [th EXCEPT ![1].pc = "rename"]
          /\ UNCHANGED env
       \/ /\ env.diskFaults > 0
          /\ env' = [env EXCEPT !.diskFaults = @ - 1]
          /\ \E left \in -1..(Len(th[1].batch) - 1) :
                disk' = IF left < 0 THEN disk
                        ELSE [disk EXCEPT !.tmp = DirPut(@, th[1].meta.name,
                                                        SubSeq(th[1].batch, 1, left))]
          /\ th' = [th EXCEPT ![1] = IdleThread]
    /\ UNCHANGED <<writer, sink, nextEv, acct, outbox, clock, last, limVars, auxVars, http>>

\* os.Rename(tmp, final), or its error followed by os.Remove(tmp)
CrRename ==
    /\ th[1].pc = "rename"
    /\ \/ /\ disk' = [spool |-> DirPut(disk.spool, th[1].meta.name, th[1].batch),
                       tmp |-> DirDel(disk.tmp, th[1].meta.name)]
          /\ th' = [th EXCEPT ![1].pc = "append"]
          /\ acct' = [acct EXCEPT
                !.stamps = Append(WithoutName(@, th[1].meta.name),
                                  [name |-> th[1].meta.name, lines |-> th[1].batch]),
                !.spooled = @ \cup {<<th[1].meta.name, th[1].batch>>}]
          /\ UNCHANGED env
       \/ /\ env.diskFaults > 0
          /\ env' = [env EXCEPT !.diskFaults = @ - 1]
          /\ disk' = [disk EXCEPT !.tmp = DirDel(@, th[1].meta.name)]
          /\ th' = [th EXCEPT ![1] = IdleThread]
          /\ UNCHANGED acct
    /\ UNCHANGED <<writer, sink, nextEv, outbox, clock, last, limVars, auxVars, http>>

\* the metadata is appended, the list sorted and totalBytes raised
CrAppend ==
    /\ th[1].pc = "append"
    /\ outbox' = [outbox EXCEPT !.files = SortByName(Append(@, th[1].meta)),
                                !.totalBytes = @ + th[1].meta.size]
    /\ th' = [th EXCEPT ![1].pc = "enforce"]
    /\ UNCHANGED <<writer, sink, env, nextEv, acct, disk, clock, last, limVars, auxVars, http>>

\* enforceMaxBytesLocked: one turn of its loop, or the return of enqueue
CrEnforce ==
    /\ th[1].pc = "enforce"
    /\ IF outbox.maxBytes > 0 /\ outbox.totalBytes > outbox.maxBytes /\ Len(outbox.files) > 1
       THEN LET oldest == outbox.files[1]
            IN  /\ outbox' = [outbox EXCEPT !.files = Tail(@),
                                            !.totalBytes = @ - oldest.size,
                                            !.droppedEvents = @ + oldest.events]
                /\ disk' = [disk EXCEPT !.spool = DirDel(@, oldest.name)]
                /\ acct' = [acct EXCEPT !.stamps = WithoutName(@, oldest.name)]
                /\ UNCHANGED th
       ELSE /\ th' = [th EXCEPT ![1] = IdleThread]
            /\ UNCHANGED <<outbox, disk, acct>>
    /\ UNCHANGED <<writer, sink, env, nextEv, clock, last, limVars, auxVars, http>>

\* the process dies, inside os.WriteFile too, and a new one starts on the
\* directory
CrCrash ==
    /\ clock < MaxCrashes
    /\ clock' = clock + 1
    /\ \E d \in {disk} \cup
                 (IF th[1].pc = "write"
                  THEN {[disk EXCEPT !.tmp = DirPut(@, th[1].meta.name,
                                                   SubSeq(th[1].batch, 1, left))] :
                           left \in 0..(Len(th[1].batch) - 1)}
                  ELSE {}) :
          /\ disk' = d
          /\ outbox' = newDiskOutbox(d, outbox.maxBytes)
    /\ th' = [th EXCEPT ![1] = IdleThread]
    /\ last' = [NoOp EXCEPT !.op = "reload"]
    /\ UNCHANGED <<writer, sink, env, nextEv, acct, limVars, auxVars, http>>

\* a drain with a sink that accepts: oldestMeta, readBatchFile, removeByName
CrDeliver ==
    /\ th[1].pc = "idle"
    /\ oldestMeta(outbox).ok
    /\ LET name == oldestMeta(outbox).meta.name
           r    == removeByName(outbox, disk, name)
       IN  /\ sink' = sink \cup {<<name, EntryLines(disk, name)>>}
           /\ outbox' = r.o
           /\ disk' = r.d
           /\ acct' = [acct EXCEPT !.stamps = WithoutName(@, name)]
    /\ last' = [NoOp EXCEPT !.op = "remove"]
    /\ UNCHANGED <<writer, env, nextEv, th, clock, limVars, auxVars, http>>

CrashNext == CrStart \/ CrWrite \/ CrRename \/ CrAppend \/ CrEnforce \/ CrCrash \/ CrDeliver

SpecCrash == CrashInit /\ [][CrashNext]_vars

(***************************************************************************)
(* SpecShutdown: main and the end of the process.  main starts Server.Run  *)
(* in a goroutine of its own and waits for ctx.Done(); when the signal     *)
(* comes it returns, which runs its deferred calls (stop, out.Close,       *)
(* enricher.Close) and ends the process with every goroutine in it.  Run   *)
(* waits for the same ctx.Done() and then calls ingestSrv.Shutdown, which  *)
(* stops accepting and waits for the handlers under way, 15 s at most.     *)
(* th[t] is a handler goroutine in ProcessBatch.  pipe holds where main    *)
(* and Run are, and for the record: flushed (Close has taken and inserted  *)
(* the buffer), req (the events of each handler's request), answered (the  *)
(* events of the requests answered 204), late (the events a handler wrote  *)
(* after Close had flushed).  The writer has no outbox and the sink        *)
(* accepts every insert.                                                   *)
(***************************************************************************)
ShutdownInit ==
    /\ LimiterIdle
    /\ OutboxIdle
    /\ HandlerIdle
    /\ ValidatorIdle
    /\ EnricherIdle
    /\ writer = newClickHouseWriter("clickhouse", 0, 0, 0)
    /\ th = [t \in Threads |-> IdleThread]
    /\ sink = {}
    /\ env = [insertFails |-> 0, diskFaults |-> 0, maxWrites |-> MaxShutdownWrites,
              history |-> FALSE]
    /\ nextEv = 1
    /\ acct = NoAcct
    /\ pipe = [main |-> "waiting", server |-> "serving", ctxDone |-> FALSE,
               flushed |-> FALSE, exited |-> FALSE,
               req |-> [t \in Threads |-> {}], answered |-> {}, late |-> {}]

\* what Write's return means for the handler: the next event, or the end
\* of ProcessBatch and the answer 204
AfterWriteReturned(t) ==
    IF Len(th[t].todo) > 1
    THEN /\ th' = [th EXCEPT ![t] = [IdleThread EXCEPT !.pc = "write", !.op = "request",
                                                       !.todo = Tail(th[t].todo)]]
         /\ pipe' = pipe
    ELSE /\ th' = [th EXCEPT ![t] = IdleThread]
         /\ pipe' = [pipe EXCEPT !.answered = @ \cup pipe.req[t]]

\* the ingest server accepts a request and its handler reaches ProcessBatch
ShArrive(t) ==
    /\ ~pipe.exited
    /\ pipe.server = "serving"
    /\ th[t].pc = "idle"
    /\ \E k \in 1..MaxRequestLen :
          /\ nextEv + k - 1 <= env.maxWrites
          /\ th' = [th EXCEPT ![t] = [IdleThread EXCEPT !.pc = "write", !.op = "request",
                                          !.todo = [j \in 1..k |-> nextEv + j - 1]]]
          /\ pipe' = [pipe EXCEPT !.req[t] = nextEv..(nextEv + k - 1)]
          /\ nextEv' = nextEv + k
    /\ UNCHANGED <<writer, sink, env, acct, limVars, obVars, http, validator, callers, enrich>>

\* out.Write(ev): the append under c.mu; at the threshold Write goes on to Flush
ShWrite(t) ==
    /\ ~pipe.exited
    /\ th[t].pc = "write"
    /\ LET ev == Head(th[t].todo)
       IN  /\ writer' = [writer EXCEPT !.buf = Append(@, ev)]
           /\ acct' = [acct EXCEPT !.written = @ \cup {ev}]
           /\ IF Len(writer.buf) + 1 >= writer.flush
              THEN /\ th' = [th EXCEPT ![t].pc = "flushBuf"]
                   /\ pipe' = [pipe EXCEPT !.late = IF pipe.flushed THEN @ \cup {ev} ELSE @]
              ELSE \E p \in {[pipe EXCEPT !.late = IF pipe.flushed THEN @ \cup {ev} ELSE @]} :
                      IF Len(th[t].todo) > 1
                      THEN /\ th' = [th EXCEPT ![t].todo = Tail(@)]
                           /\ pipe' = p
                      ELSE /\ th' = [th EXCEPT ![t] = IdleThread]
                           /\ pipe' = [p EXCEPT !.answered = @ \cup pipe.req[t]]
    /\ UNCHANGED <<sink, env, nextEv, limVars, obVars, http, validator, callers, enrich>>

\* the handler's flushBuf: the buffer is taken under c.mu
ShFlushBuf(t) ==
    /\ ~pipe.exited
    /\ th[t].pc = "flushBuf"
    /\ IF Len(writer.buf) = 0
       THEN /\ AfterWriteReturned(t)
            /\ UNCHANGED writer
       ELSE \E r \in {takeBuffer(writer)} :
               /\ th' = [th EXCEPT ![t].pc = "insert", ![t].batch = r.batch]
               /\ writer' = r.c
               /\ pipe' = pipe
    /\ UNCHANGED <<sink, env, nextEv, acct, limVars, obVars, http, validator, callers, enrich>>

\* the handler's insertBatch returns nil, and Flush and Write with it
ShInsert(t) ==
    /\ ~pipe.exited
    /\ th[t].pc = "insert"
    /\ sink' = sink \cup Range(th[t].batch)
    /\ AfterWriteReturned(t)
    /\ UNCHANGED <<writer, env, nextEv, acct, limVars, obVars, http, validator, callers, enrich>>

\* SIGINT or SIGTERM: the context of signal.NotifyContext is done
ShSignal ==
    /\ ~pipe.exited
    /\ ~pipe.ctxDone
    /\ pipe' = [pipe EXCEPT !.ctxDone = TRUE]
    /\ UNCHANGED <<wrVars, limVars, obVars, http, validator, callers, enrich>>

\* Server.Run: case <-ctx.Done(), ingestSrv.Shutdown stops accepting
RunShutdown ==
    /\ ~pipe.exited
    /\ pipe.ctxDone
    /\ pipe.server = "serving"
    /\ pipe' = [pipe EXCEPT !.server = "shutdown"]
    /\ UNCHANGED <<wrVars, limVars, obVars, http, validator, callers, enrich>>

\* ingestSrv.Shutdown returns, when no handler is under way or when its
\* 15 s are over, and Run returns
RunReturn ==
    /\ ~pipe.exited
    /\ pipe.server = "shutdown"
    /\ pipe' = [pipe EXCEPT !.server = "stopped"]
    /\ UNCHANGED <<wrVars, limVars, obVars, http, validator, callers, enrich>>

\* main: <-ctx.Done() returns, "shutting down" is logged, main returns and
\* its deferred calls begin (stop() first)
MainWakes ==
    /\ pipe.ctxDone
    /\ pipe.main = "waiting"
    /\ pipe' = [pipe EXCEPT !.main = "close"]
    /\ UNCHANGED <<wrVars, limVars, obVars, http, validator, callers, enrich>>

\* the deferred out.Close(): flushBuf takes the buffer and inserts it
\* (drainOutbox returns at once without an outbox)
MainClose ==
    /\ pipe.main = "close"
    /\ \E r \in {takeBuffer(writer)} :
          /\ writer' = r.c
          /\ sink' = sink \cup Range(r.batch)
    /\ pipe' = [pipe EXCEPT !.main = "closed", !.flushed = TRUE]
    /\ UNCHANGED <<th, env, nextEv, acct, limVars, obVars, http, validator, callers, enrich>>

\* the deferred enricher.Close() has run and the process ends
MainExit ==
    /\ pipe.main = "closed"
    /\ pipe' = [pipe EXCEPT !.main = "exited", !.exited = TRUE]
    /\ UNCHANGED <<wrVars, limVars, obVars, http, validator, callers, enrich>>

ShutdownNext ==
    \/ \E t \in Threads : ShArrive(t)
    \/ \E t \in Threads : ShWrite(t)
    \/ \E t \in Threads : ShFlushBuf(t)
    \/ \E t \in Threads : ShInsert(t)
    \/ ShSignal
    \/ RunShutdown
    \/ RunReturn
    \/ MainWakes
    \/ MainClose
    \/ MainExit

SpecShutdown == ShutdownInit /\ [][ShutdownNext]_vars

(***************************************************************************)
(* Properties of the limiter (SpecLimiter).                                *)
(***************************************************************************)
CallIdx == 1..Len(calls)

\* earlier calls of the same sensor
EarlierOf(i) == {j \in 1..(i - 1) : calls[j].sensor = calls[i].sensor}
\* earlier calls of the same sensor that observed the same second
PriorSameSecond(i) == {j \in EarlierOf(i) : calls[j].now = calls[i].now}
\* the last earlier call of the same sensor that observed another second (0: none)
LastOtherSecond(i) ==
    LET o == {j \in EarlierOf(i) : calls[j].now # calls[i].now}
    IN  IF o = {} THEN 0 ELSE CHOOSE j \in o : \A k \in o : k <= j
\* earlier calls of the same sensor in the current run of equal readings
PriorInRun(i) == {j \in EarlierOf(i) : j > LastOtherSecond(i)}
\* call i is the first of its sensor, or its sensor's previous call saw another second
ObservesNewSecond(i) ==
    \/ EarlierOf(i) = {}
    \/ LET p == CHOOSE j \in EarlierOf(i) : \A k \in EarlierOf(i) : k <= j
       IN  calls[p].now # calls[i].now
NonDecreasingClock ==
    \A i \in CallIdx : \A j \in 1..(i - 1) : calls[j].now <= calls[i].now

\* C7 as stated: with rps = N > 0, among ALL calls of one sensor that observe
\* the same second exactly the first N are allowed, and a call observing a
\* different second than the previous one is allowed.
C7_AsStated ==
    rpsArg > 0 =>
        \A i \in CallIdx :
            /\ calls[i].ok = (Cardinality(PriorSameSecond(i)) < rpsArg)
            /\ ObservesNewSecond(i) => calls[i].ok

\* C7 amended: with rps = N > 0, within a run of consecutive calls of one sensor
\* that observe the same second exactly the first N are allowed; a call that
\* observes another second than the sensor's previous call starts a new run and
\* is allowed; for non-decreasing clock readings this is the statement above.
C7_FixedWindow ==
    rpsArg > 0 =>
        /\ \A i \in CallIdx :
            /\ calls[i].ok = (Cardinality(PriorInRun(i)) < rpsArg)
            /\ ObservesNewSecond(i) => calls[i].ok
        /\ NonDecreasingClock =>
             \A i \in CallIdx : calls[i].ok = (Cardinality(PriorSameSecond(i)) < rpsArg)

\* two allowed calls and a denied one in one second, then an allowed call in the next
C7_Witness ==
    /\ rpsArg = 2
    /\ Len(calls) = 4
    /\ \A i \in CallIdx : calls[i].sensor = "sensor-a"
    /\ calls[1].now = 1 /\ calls[2].now = 1 /\ calls[3].now = 1 /\ calls[4].now = 2
    /\ calls[1].ok /\ calls[2].ok /\ ~calls[3].ok /\ calls[4].ok

\* the limiter's entry of one sensor
SensorEntry(p, b) ==
    [hasTick |-> b \in DOMAIN p.lastTick, tick |-> MapGet(p.lastTick, b),
     hasCount |-> b \in DOMAIN p.count, count |-> MapGet(p.count, b)]

\* the limiter and the results obtained by replaying calls h on limiter p
RECURSIVE Replay(_, _)
Replay(p, h) ==
    IF h = <<>> THEN [p |-> p, oks |-> <<>>]
    ELSE LET before == Replay(p, SubSeq(h, 1, Len(h) - 1))
             c == h[Len(h)]
             r == Allow(before.p, c.sensor, c.now)
         IN  [p |-> r.p, oks |-> Append(before.oks, r.ok)]

CallsOf(b) == SelectSeq(calls, LAMBDA c : c.sensor = b)
OksOf(b) == LET h == CallsOf(b) IN [i \in 1..Len(h) |-> h[i].ok]

\* C8: the window, the count and every result of sensor b are those of a
\* limiter that received only the calls made for b.
C8_SensorsIndependent ==
    \A b \in Sensors :
        LET alone == Replay(NewPerSensorLimiter(rpsArg), CallsOf(b))
        IN  /\ SensorEntry(limiter, b) = SensorEntry(alone.p, b)
            /\ OksOf(b) = alone.oks

\* C8 (step form): an Allow call for a leaves the entry of every other sensor as it was
C8_Frame ==
    [][Len(calls') = Len(calls) + 1 =>
         \A b \in Sensors \ {calls'[Len(calls')].sensor} :
             SensorEntry(limiter', b) = SensorEntry(limiter, b)]_vars

\* sensor-a is denied in a second in which sensor-b is allowed before and after
C8_Witness ==
    /\ rpsArg = 1
    /\ Len(calls) = 4
    /\ calls[1].sensor = "sensor-a" /\ calls[2].sensor = "sensor-b"
    /\ calls[3].sensor = "sensor-a" /\ calls[4].sensor = "sensor-b"
    /\ \A i \in CallIdx : calls[i].now = 1
    /\ calls[1].ok /\ calls[2].ok /\ ~calls[3].ok /\ ~calls[4].ok

\* C9: a limiter built with 0 is, after every sequence of calls, in the state of
\* a limiter built with 50 and has given the same answers; a limiter built with
\* a negative rps has allowed every call.
C9_ZeroIsDefaultNegativeDisabled ==
    /\ rpsArg = 0 =>
         LET fifty == Replay(NewPerSensorLimiter(50), calls)
         IN  /\ limiter = fifty.p
             /\ [i \in CallIdx |-> calls[i].ok] = fifty.oks
    /\ rpsArg < 0 => \A i \in CallIdx : calls[i].ok

\* a disabled limiter has allowed four calls of one sensor in one second
C9_Witness ==
    /\ rpsArg < 0
    /\ Len(calls) = 4
    /\ \A i \in CallIdx : calls[i].sensor = "sensor-a" /\ calls[i].now = 0 /\ calls[i].ok

\* a limiter built with 0 has counted calls against the limit 50
C9_WitnessZero ==
    /\ rpsArg = 0
    /\ limiter.rps = 50
    /\ Len(calls) = 3
    /\ MapGet(limiter.count, "sensor-a") = 3

(***************************************************************************)
(* Properties of the outbox (SpecOutbox).                                  *)
(***************************************************************************)
ListedNames == {outbox.files[i].name : i \in 1..Len(outbox.files)}

\* C4: after every enqueue on an outbox with a byte cap, totalBytes is within
\* the cap or exactly one file remains, and an enqueue that stored a file or
\* deleted files for overflow leaves at least one file.
C4_CapOrOneFile ==
    (last.op = "enqueue" /\ outbox.maxBytes > 0) =>
        /\ outbox.totalBytes <= outbox.maxBytes \/ Len(outbox.files) = 1
        /\ (last.stored \/ last.dropped > 0) =>
             /\ Len(outbox.files) >= 1
             /\ DOMAIN disk.spool # {}

\* an enqueue deleted older files and the one file left is larger than the cap
C4_Witness ==
    /\ last.op = "enqueue"
    /\ outbox.maxBytes > 0
    /\ last.dropped > 0
    /\ Len(outbox.files) = 1
    /\ outbox.totalBytes > outbox.maxBytes

\* an enqueue deleted one file, two files remain within the cap
C4_WitnessTwoLeft ==
    /\ last.op = "enqueue"
    /\ outbox.maxBytes > 0
    /\ last.dropped > 0
    /\ Len(outbox.files) = 2
    /\ outbox.totalBytes <= outbox.maxBytes

C5_WitnessReload ==
    /\ last.op = "reload"
    /\ Len(outbox.files) = 1
    /\ DOMAIN disk.tmp # {}

\* C6: the count an enqueue returns is the number of events in the files its
\* overflow enforcement deleted from the directory, and droppedEvents grew by
\* that count in the call.
C6_DroppedIsDeletedEvents ==
    last.op = "enqueue" =>
        /\ last.dropped = last.deletedLines
        /\ outbox.droppedEvents = last.droppedBefore + last.dropped

\* one enqueue deleted a file of two events
C6_Witness ==
    /\ last.op = "enqueue"
    /\ last.dropped = 2
    /\ last.deletedLines = 2
    /\ outbox.droppedEvents = last.droppedBefore + 2
    /\ Len(outbox.files) = 1

(***************************************************************************)
(* Properties of the writers (SpecWriter, LiveSpecWriter).                 *)
(***************************************************************************)
\* the events held by the .ndjson files of the spool directory
InSpool == InFiles(disk)
\* the events some goroutine is about to send to the sink
BeingSent == UNION {Range(th[t].batch) : t \in {u \in Threads : th[u].pc \in {"insert", "drainInsert"}}}
\* a Flush call, or a Write call that reached the threshold, has just returned
\* after the insert of its batch failed
FailedFlushReturned == last.op = "return" /\ last.flushed /\ last.failed # <<>>

C2_AsStated ==
    (writer.hasOutbox /\ FailedFlushReturned /\ last.err = "nil") =>
        /\ Range(last.failed) \cap sink = {}
        /\ Range(last.failed) \cap InSpool # {}

\* C2: with the outbox, a flush whose insert failed returns no error when every
\* enqueue succeeded, and the handler then does not answer 500; every event of
\* the batch was spooled and is, at the return, in a spool file, delivered out
\* of the spool by a drain, or dropped by overflow or as unreadable; the only
\* error a call returns is the enqueue error of a failed enqueue
C2_SpooledNotFailed ==
    (writer.hasOutbox /\ last.op = "return") =>
        /\ last.err \in {"nil", "enqueue_err"}
        /\ last.err = "enqueue_err" => Range(last.failed) \cap acct.enqLost # {}
        /\ (last.failed # <<>> /\ Range(last.failed) \cap acct.enqLost = {}) => last.err = "nil"
        /\ (last.failed # <<>> /\ last.err = "nil") =>
              /\ Range(last.failed) \subseteq acct.spooled
              /\ Range(last.failed) \subseteq
                    (InSpool \cup acct.drained \cup acct.overflow \cup acct.unreadable)
              /\ Range(last.failed) \cap sink \subseteq acct.drained
        /\ last.call = "Write" =>
              /\ last.status = 500 <=> last.err # "nil"
              /\ (last.err = "nil" /\ th[last.t].pc = "idle") => last.status = 204

C2_Witness ==
    /\ writer.hasOutbox
    /\ FailedFlushReturned
    /\ last.err = "nil"
    /\ last.call = "Write"
    /\ last.status = 204
    /\ Range(last.failed) \cap sink = {}
    /\ Range(last.failed) \subseteq InSpool

\* the same flush delivered its spooled batch in its own drain
C2_WitnessDrainedAtReturn ==
    /\ writer.hasOutbox
    /\ FailedFlushReturned
    /\ last.err = "nil"
    /\ Range(last.failed) \subseteq sink

\* the batch was dropped by the overflow of another goroutine's enqueue
C2_WitnessOverflowedAtReturn ==
    /\ writer.hasOutbox
    /\ FailedFlushReturned
    /\ last.err = "nil"
    /\ Range(last.failed) \cap (sink \cup InSpool) = {}
    /\ Range(last.failed) \subseteq acct.overflow

\* C3: without an outbox (ClickHouse without outbox, Elasticsearch), a call
\* whose delivery failed returns the delivery error and a request answers 500;
\* the failed batch's events are not in the buffer, are not delivered and are
\* in no batch that is sent later; and no call returns an error otherwise
C3_DeliveryErrorReturned ==
    ~writer.hasOutbox =>
        /\ last.op = "return" =>
              /\ last.failed # <<>> <=> last.err = "insert_err"
              /\ last.err \in {"nil", "insert_err"}
              /\ (last.call = "Write" /\ last.err = "insert_err") => last.status = 500
              /\ last.failed # <<>> => Range(last.failed) \subseteq acct.lost
        /\ acct.lost \cap Range(writer.buf) = {}
        /\ acct.lost \cap sink = {}
        /\ acct.lost \cap BeingSent = {}

C3_Witness ==
    /\ writer.kind = "elasticsearch"
    /\ last.op = "return"
    /\ last.call = "Write"
    /\ last.err = "insert_err"
    /\ last.status = 500
    /\ Len(last.failed) = Threshold

\* after a failed delivery a later batch is delivered
C3_WitnessLaterDelivery ==
    /\ writer.kind = "clickhouse"
    /\ acct.lost # {}
    /\ sink # {}

(***************************************************************************)
(* Properties of the ingest handler (SpecHandler).                         *)
(***************************************************************************)
Check(name, status, slug) == [name |-> name, status |-> status, slug |-> slug]

\* the checks up to the batch length, in the claimed order
ChecksToLength ==
    << Check("method", 405, "method_not_allowed"),
       Check("content_type", 415, "invalid_content_type"),
       Check("authorization", 401, "unauthorized"),
       Check("token", 401, "unauthorized"),
       Check("spip_id", 401, "unauthorized"),
       Check("rate_limit", 429, "rate_limit_exceeded"),
       Check("body_size", 413, "payload_too_large"),
       Check("body_read", 400, "invalid_request"),
       Check("leading_bracket", 400, "invalid_request"),
       Check("json_parse", 400, "invalid_request"),
       Check("batch_length", 413, "batch_too_large") >>

\* the order as claimed: one per-event size check ends the list
ChecksAsStated == Append(ChecksToLength, Check("event_size", 413, "event_too_large"))

\* the order with the test of each element in array order: nil, then size
ElementChecks(i) ==
    << [name |-> "element_null", status |-> 400, slug |-> "invalid_request", i |-> i],
       [name |-> "element_size", status |-> 413, slug |-> "event_too_large", i |-> i] >>

RECURSIVE ElementChecksFrom(_)
ElementChecksFrom(i) ==
    IF i > MaxEventsPerBatch + 1 THEN <<>> ELSE ElementChecks(i) \o ElementChecksFrom(i + 1)

\* whether request req fails check c at a handler whose limiter is p at second now;
\* nullIsParseError: a null element counts as a failure of the JSON parse
FailsCheck(c, req, p, now, nullIsParseError) ==
    LET sensorID == Validate(TokenOf(req.authz))
        id       == IF req.xSpipID = "" THEN sensorID ELSE req.xSpipID
        elems    == req.body.elems
        isArray  == req.body.kind = "array"
    IN  CASE c.name = "method"          -> req.method # "POST"
          [] c.name = "content_type"    -> req.contentType # "application/json"
          [] c.name = "authorization"   -> ~HasBearerPrefix(req.authz)
          [] c.name = "token"           -> sensorID = ""
          [] c.name = "spip_id"         -> req.xSpipID # "" /\ req.xSpipID # sensorID
          [] c.name = "rate_limit"      -> ~Allow(p, id, now).ok
          [] c.name = "body_size"       -> req.body.kind = "too_large"
          [] c.name = "body_read"       -> req.body.kind = "read_error"
          [] c.name = "leading_bracket" -> req.body.kind = "not_array"
          [] c.name = "json_parse"      ->
                \/ req.body.kind = "bad_json"
                \/ nullIsParseError /\ isArray /\ \E i \in 1..Len(elems) : elems[i] = "null"
          [] c.name = "batch_length"    -> isArray /\ Len(elems) > MaxEventsPerBatch
          [] c.name = "event_size"      -> isArray /\ \E i \in 1..Len(elems) : elems[i] = "large"
          [] c.name = "element_null"    -> isArray /\ c.i <= Len(elems) /\ elems[c.i] = "null"
          [] c.name = "element_size"    -> isArray /\ c.i <= Len(elems) /\ elems[c.i] = "large"

\* the response is that of the first check of the list that the request fails,
\* and 204 or 500 when it fails none
AnswersFirstFailing(checks, nullIsParseError) ==
    LET failing == {k \in 1..Len(checks) :
                       FailsCheck(checks[k], http.req, http.before, clock, nullIsParseError)}
    IN  IF failing = {} THEN http.resp.status \in {204, 500}
        ELSE LET first == CHOOSE k \in failing : \A j \in failing : k <= j
             IN  /\ http.resp.status = checks[first].status
                 /\ http.resp.slug = checks[first].slug

C10_WitnessRateLimitBeforeBody ==
    /\ http.pc = "answered"
    /\ http.req.body.kind = "too_large"
    /\ http.resp.status = 429

\* the sensor id the validator returns for the token of the request
TokenSensor(req) == Validate(TokenOf(req.authz))

\* the sensors whose rate-limit window or count ServeHTTP touched
LimiterTouched ==
    {x \in (DOMAIN http.before.lastTick) \cup (DOMAIN limiter.lastTick) :
        \/ x \notin DOMAIN http.before.lastTick
        \/ http.before.lastTick[x] # limiter.lastTick[x]
        \/ MapGet(http.before.count, x) # MapGet(limiter.count, x)}

\* C11: the sensor id passed to the rate limiter, the label of every metric of
\* an authenticated request and the argument of process_batch equal the sensor
\* id the validator returns for the presented token; a request that presents a
\* Bearer token and an X-Spip-ID header differing from the token's sensor id
\* is answered 401, and no request with such a header reaches the rate
\* limiter or process_batch
C11_SensorFromToken ==
    http.pc = "answered" =>
        LET sid == TokenSensor(http.req)
            r   == http.resp
        IN  /\ r.rateKey # "" => r.rateKey = sid /\ sid # ""
            /\ LimiterTouched \subseteq {sid} \ {""}
            /\ r.processed # "" => r.processed = sid /\ sid # ""
            /\ \A i \in 1..Len(r.metrics) :
                  r.metrics[i][1] = (IF sid = "" THEN "unknown" ELSE sid)
            /\ SpipMismatch(http.req.xSpipID, sid) =>
                  /\ r.rateKey = "" /\ r.processed = "" /\ limiter = http.before
                  /\ (/\ http.req.method = "POST"
                      /\ http.req.contentType = "application/json"
                      /\ HasBearerPrefix(http.req.authz)) =>
                        r.status = 401 /\ r.slug = "unauthorized"

\* a valid token with the X-Spip-ID of another sensor: 401, limiter untouched
C11_Witness ==
    /\ http.pc = "answered"
    /\ http.req.method = "POST"
    /\ http.req.contentType = "application/json"
    /\ TokenSensor(http.req) = "sensor-a"
    /\ http.req.xSpipID = "sensor-b"
    /\ http.resp.status = 401
    /\ limiter = http.before

\* a valid token with its own sensor id in X-Spip-ID is limited and processed
\* under the token's sensor id
C11_WitnessHeaderAgrees ==
    /\ http.pc = "answered"
    /\ http.req.authz.token = "bearer tok-b"
    /\ http.req.xSpipID = "sensor-b"
    /\ http.resp.rateKey = "sensor-b"
    /\ http.resp.processed = "sensor-b"
    /\ LimiterTouched = {"sensor-b"}

\* the admission checks of the handler, in the order of the code
AdmissionChecks == ChecksToLength \o ElementChecksFrom(1)

\* the request of the current exchange fails none of the admission checks
Admitted ==
    \A k \in 1..Len(AdmissionChecks) :
        ~FailsCheck(AdmissionChecks[k], http.req, http.before, clock, FALSE)

\* C12: process_batch is invoked at most once per request and exactly when
\* every admission check passed; the response is 204 with an empty body iff it
\* was invoked and returned no error, and 500 internal_error iff it was
\* invoked and returned an error
C12_ProcessBatchOnceWhenAdmitted ==
    http.pc = "answered" =>
        LET r == http.resp
        IN  /\ r.pbCalls <= 1
            /\ r.pbCalls = 1 <=> Admitted
            /\ r.pbCalls = 1 <=> r.processed # ""
            /\ (r.status = 204 /\ r.slug = "" /\ ~r.json) <=> (r.pbCalls = 1 /\ r.pbResult = "nil")
            /\ r.status = 204 => r.slug = ""
            /\ (r.status = 500 /\ r.slug = "internal_error") <=> (r.pbCalls = 1 /\ r.pbResult = "error")
            /\ r.status = 500 => r.slug = "internal_error"

\* an admitted request whose process_batch fails is answered 500
C12_Witness ==
    /\ http.pc = "answered"
    /\ Admitted
    /\ http.resp.pbCalls = 1
    /\ http.resp.pbResult = "error"
    /\ http.resp.status = 500

\* an admitted request whose process_batch succeeds is answered 204
C12_WitnessNoContent ==
    /\ http.pc = "answered"
    /\ Admitted
    /\ http.resp.pbResult = "nil"
    /\ http.resp.status = 204
    /\ http.req.body.elems = <<"small", "small">>

(***************************************************************************)
(* Properties of the handler under a burst of valid requests (SpecBurst).  *)
(***************************************************************************)
\* the position of request i among the requests of its sensor in its second
RankInSecond(i) ==
    Cardinality({j \in 1..i : /\ calls[j].sensor = calls[i].sensor
                              /\ calls[j].now = calls[i].now})

\* C13: with rps = 2, of the successive valid requests of one sensor within
\* one wall-clock second the first two are answered 204 (500 only when
\* process_batch itself fails) and the third and every later one 429; every
\* 429 response carries Retry-After: 1 and the slug rate_limit_exceeded
C13_BurstOfThree ==
    \A i \in 1..Len(calls) :
        LET r == calls[i].resp
        IN  /\ RankInSecond(i) <= BurstRPS =>
                  r.status = (IF r.pbResult = "nil" THEN 204 ELSE 500)
            /\ RankInSecond(i) > BurstRPS => r.status = 429
            /\ r.status = 429 =>
                  /\ r.retryAfter = "1"
                  /\ r.slug = "rate_limit_exceeded"
                  /\ r.pbCalls = 0

\* three successive requests of one sensor in one second: 204, 204, 429
C13_Witness ==
    /\ Len(calls) >= 3
    /\ \A i \in 1..3 : calls[i].sensor = "sensor-a" /\ calls[i].now = calls[1].now
    /\ calls[1].resp.status = 204
    /\ calls[2].resp.status = 204
    /\ calls[3].resp.status = 429
    /\ calls[3].resp.retryAfter = "1"

(***************************************************************************)
(* Properties of the validator (SpecValidator).                            *)
(***************************************************************************)
\* what a table answers for a token: the sensor id stored for exactly this
\* non-empty token, else the empty result
Lookup(m, token) ==
    IF token # <<>> /\ token \in DOMAIN m THEN m[token] ELSE ""

\* x occurs in y at offset k
OccursAt(x, y, k) ==
    /\ k + Len(x) <= Len(y)
    /\ \A i \in 1..Len(x) : y[k + i] = x[i]

\* x is a proper prefix, proper suffix or other proper substring of y
ProperSubstring(x, y) == Len(x) < Len(y) /\ \E k \in 0..Len(y) : OccursAt(x, y, k)

\* x is an extension of y
Extension(x, y) == Len(y) < Len(x) /\ \E k \in 0..Len(x) : OccursAt(y, x, k)

\* the calls of Validate that have their result
Validated == {c \in Callers : callers[c].op = "Validate" /\ callers[c].pc = "done"}

\* the table a finished Validate ranged over (any table after the early return)
TableOf(c) ==
    IF callers[c].read = 0 THEN validator.maps[validator.cur]
    ELSE validator.maps[callers[c].read]

\* C14: Validate(token) returns a sensor id only when token is byte-for-byte
\* equal to a stored token, and then the sensor id of that token; it returns
\* the empty result for the empty token and for every token that is not
\* itself stored and is a proper prefix, proper suffix, extension or
\* substring of a stored token
C14_ExactMatchOnly ==
    \A c \in Validated :
        LET token == callers[c].token
            m     == TableOf(c)
            res   == callers[c].result
        IN  /\ res # "" => token \in DOMAIN m /\ res = m[token]
            /\ (token # <<>> /\ token \in DOMAIN m) => res = m[token]
            /\ token = <<>> => res = ""
            /\ (/\ token \notin DOMAIN m
                /\ \E st \in DOMAIN m : ProperSubstring(token, st) \/ Extension(token, st))
                  => res = ""

\* an extension of a stored token is rejected
C14_Witness ==
    \E c \in Validated :
        /\ <<1, 2>> \in DOMAIN TableOf(c)
        /\ callers[c].token = <<1, 2, 1>>
        /\ callers[c].read # 0
        /\ callers[c].result = ""

\* a stored token is accepted with its sensor id, whatever its place in the slice
C14_WitnessAccepted ==
    \E c \in Validated :
        /\ callers[c].token = <<2, 1, 2>>
        /\ callers[c].result = "sensor-b"
        /\ validator.heap[callers[c].read][2].token = <<2, 1, 2>>

\* C15: a Validate answers according to one complete table that was current
\* at some time during the call: the old or the new one when an Update runs
\* concurrently, never a mixture, and the new one alone once Update has
\* returned before the call
C15_AtomicUpdate ==
    \A c \in Validated :
        /\ \E p \in callers[c].seen :
              callers[c].result = Lookup(validator.maps[p], callers[c].token)
        /\ callers[c].read # 0 => callers[c].read \in callers[c].seen
        /\ callers[c].seen \subseteq 1..Len(validator.maps)

\* the slice always is one complete array outside Update's critical section
C15_SliceIsOneArray ==
    validator.writer = 0 =>
        /\ validator.ptr = validator.cur
        /\ validator.len = Len(validator.heap[validator.ptr])

\* after an Update has returned, a Validate called afterwards rejects a token
\* of the old table only
C15_Witness ==
    \E c \in Validated :
        /\ callers[c].seen = {2}
        /\ callers[c].token = <<1, 2>>
        /\ Lookup(validator.maps[1], <<1, 2>>) = "sensor-a"
        /\ callers[c].result = ""

\* a Validate that ran while an Update was waiting for the lock answers
\* by the old table
C15_WitnessConcurrent ==
    \E c \in Validated : \E u \in Callers :
        /\ callers[u].op = "Update" /\ callers[u].pc = "lock"
        /\ callers[c].result # ""
        /\ Lookup(callers[u].map, callers[c].token) = ""

(***************************************************************************)
(* Properties of the enricher (SpecEnrich).                                *)
(***************************************************************************)
\* the fields enrichment sets, as paths from the event
EnrichmentFields ==
    { <<"source", "as", "number">>, <<"source", "as", "organization", "name">>,
      <<"source", "geo", "country_iso_code">>, <<"source", "geo", "region_name">>,
      <<"source", "geo", "city_name">>, <<"source", "geo", "location">>,
      <<"source", "domain">> }

\* path leads towards an enrichment field
AboveField(path) ==
    \E f \in EnrichmentFields :
        Len(path) < Len(f) /\ \A i \in 1..Len(path) : f[i] = path[i]

\* the value a at path is still there in b: an enrichment field may have any
\* value, an object above one keeps each of its keys, every other value is equal
RECURSIVE Preserved(_, _, _)
Preserved(a, b, path) ==
    IF path \in EnrichmentFields THEN TRUE
    ELSE IF AboveField(path) /\ a.t = "object"
    THEN /\ b.t = "object"
         /\ \A k \in DOMAIN a.o :
               k \in DOMAIN b.o /\ Preserved(a.o[k], b.o[k], Append(path, k))
    ELSE b = a

\* source.as and source.geo are in the event after the call only if they
\* were in it before
AddsNoAsOrGeo ==
    \A k \in {"as", "geo"} :
        k \in DOMAIN MapAt(enrich.out, "source") => k \in DOMAIN MapAt(enrich.in, "source")

NoDatabases == ~enrich.e.asnDB /\ ~enrich.e.geoDB /\ ~enrich.e.dns

\* C16 as stated: whatever the JSON types of source, source.as and source.geo,
\* EnrichEvent leaves every top-level key and every nested key other than the
\* enrichment fields present with its original value, and with no databases
\* and no DNS it adds neither source.as nor source.geo
C16_AsStated ==
    enrich.pc = "done" =>
        /\ Preserved(JObj(enrich.in), JObj(enrich.out), <<>>)
        /\ NoDatabases => AddsNoAsOrGeo

\* where on the way to an enrichment field the event has a value, it is an object
ObjectsAboveFields(ev) ==
    LET src == MapAt(ev, "source")
    IN  /\ "source" \in DOMAIN ev => IsMap(ev, "source")
        /\ "as" \in DOMAIN src => IsMap(src, "as")
        /\ "geo" \in DOMAIN src => IsMap(src, "geo")
        /\ "organization" \in DOMAIN MapAt(src, "as") => IsMap(MapAt(src, "as"), "organization")

\* what the code keeps of C16: the statement for events whose source,
\* source.as, source.as.organization and source.geo are objects or absent
C16_PreservedForObjects ==
    (enrich.pc = "done" /\ ObjectsAboveFields(enrich.in)) =>
        /\ Preserved(JObj(enrich.in), JObj(enrich.out), <<>>)
        /\ NoDatabases => AddsNoAsOrGeo

\* with no databases and no DNS only a source that is not an object changes
C16_NoDatabasesOnlySource ==
    (enrich.pc = "done" /\ NoDatabases) =>
        /\ AddsNoAsOrGeo
        /\ \A k \in DOMAIN enrich.in :
              (k # "source" \/ IsMap(enrich.in, "source")) => enrich.out[k] = enrich.in[k]

\* an event whose source is a string comes back with an empty source object
C16_Witness ==
    /\ enrich.pc = "done"
    /\ NoDatabases
    /\ "source" \in DOMAIN enrich.in
    /\ enrich.in["source"] = JStr("8.8.8.8")
    /\ enrich.out["source"] = JObj(EmptyMap)
    /\ enrich.out["event"] = enrich.in["event"]

\* a source.as that is a string is replaced by the ASN object
C16_WitnessAsReplaced ==
    /\ enrich.pc = "done"
    /\ IsMap(enrich.in, "source")
    /\ StringAt(enrich.in["source"].o, "as") = "AS1"
    /\ IsMap(enrich.out["source"].o, "as")

\* source.ip is absent, not a string, empty or not parseable as an IP address
NoUsableIP(ev) ==
    LET src == MapAt(ev, "source")
    IN  \/ ~IsMap(ev, "source")
        \/ "ip" \notin DOMAIN src
        \/ src["ip"].t # "string"
        \/ src["ip"].s = ""
        \/ ~IsIP(src["ip"].s)

\* no existing value changed and nothing was added but, to an event without
\* source, the empty source object
Untouched ==
    /\ \A k \in DOMAIN enrich.in : k \in DOMAIN enrich.out /\ enrich.out[k] = enrich.in[k]
    /\ \A k \in DOMAIN enrich.out :
          k \in DOMAIN enrich.in \/ (k = "source" /\ enrich.out[k] = JObj(EmptyMap))

\* C17 as stated: when source.ip is absent, not a string, empty or not
\* parseable, EnrichEvent makes no database or DNS lookup and leaves the event
\* untouched: no source.as, source.geo or source.domain is added and no
\* existing value changes
C17_AsStated ==
    (enrich.pc = "done" /\ NoUsableIP(enrich.in)) =>
        /\ enrich.lookups = {}
        /\ Untouched

\* what the code keeps of C17: the statement for events whose source is an
\* object or absent; no lookup is made in any case
C17_UntouchedForObjectSource ==
    (enrich.pc = "done" /\ NoUsableIP(enrich.in)) =>
        /\ enrich.lookups = {}
        /\ ("source" \in DOMAIN enrich.in => IsMap(enrich.in, "source")) => Untouched

\* an event whose source is null comes back with an empty source object
C17_Witness ==
    /\ enrich.pc = "done"
    /\ enrich.e.asnDB /\ enrich.e.geoDB /\ enrich.e.dns
    /\ "source" \in DOMAIN enrich.in
    /\ enrich.in["source"] = JNull
    /\ enrich.out["source"] = JObj(EmptyMap)
    /\ enrich.lookups = {}

\* an event without source.ip whose source is an object comes back as it was
C17_WitnessUntouched ==
    /\ enrich.pc = "done"
    /\ enrich.e.asnDB /\ enrich.e.geoDB /\ enrich.e.dns
    /\ IsMap(enrich.in, "source")
    /\ "ip" \notin DOMAIN enrich.in["source"].o
    /\ "as" \in DOMAIN enrich.in["source"].o
    /\ enrich.out = enrich.in

(***************************************************************************)
(* Properties of the handler's error responses (SpecHandler).              *)
(***************************************************************************)
ErrorStatuses == {405, 415, 401, 429, 400, 413, 500}

ErrorSlugs ==
    {"method_not_allowed", "invalid_content_type", "unauthorized", "rate_limit_exceeded",
     "invalid_request", "payload_too_large", "batch_too_large", "event_too_large",
     "internal_error"}

\* C18 as stated: every error response of the ingest handler (405, 415, 401,
\* 429, 400, 413, 500) carries Content-Type: application/json and a body
\* {"error":"<slug>"} whose slug belongs to the closed set
C18_AsStated ==
    (http.pc = "answered" /\ http.resp.status \in ErrorStatuses) =>
        /\ http.resp.json
        /\ http.resp.slug \in ErrorSlugs

\* what the code keeps of C18: every response is 204 or an error response
\* with a slug of the closed set, and the error responses other than 413
\* carry Content-Type: application/json; the 413 responses do not
C18_JsonExcept413 ==
    http.pc = "answered" =>
        /\ http.resp.status \in ErrorStatuses \cup {204}
        /\ http.resp.status \in ErrorStatuses => http.resp.slug \in ErrorSlugs
        /\ http.resp.status \in ErrorStatuses \ {413} => http.resp.json
        /\ http.resp.status = 413 => ~http.resp.json

\* a body above the body cap is answered 413 payload_too_large without the
\* JSON content type
C18_Witness ==
    /\ http.pc = "answered"
    /\ http.req.body.kind = "too_large"
    /\ http.resp.status = 413
    /\ http.resp.slug = "payload_too_large"
    /\ ~http.resp.json

(***************************************************************************)
(* Properties of ProcessBatch (SpecPipeline).                              *)
(***************************************************************************)
\* the calls goroutine g made, in their order
WorkerCalls(g) == SelectSeq(pipe.calls, LAMBDA c : c.g = g)

\* C19: within one batch process_batch handles the events in input order:
\* event i is enriched before it is written and written before event i+1 is
\* enriched; at the first write error processing stops, no later event of
\* the batch is enriched or written, and the error is returned
C19_InOrderStopAtError ==
    \A g \in Workers :
        LET cs == WorkerCalls(g)
            w  == pipe.w[g]
        IN  /\ \A k \in 1..Len(cs) :
                  /\ cs[k].i = (k + 1) \div 2
                  /\ cs[k].op = (IF k % 2 = 1 THEN "EnrichEvent" ELSE "Write")
                  /\ cs[k].i <= w.n
                  /\ k < Len(cs) => cs[k].err = "nil"
            /\ (cs # <<>> /\ cs[Len(cs)].err # "nil") =>
                  w.pc = "returned" /\ w.err = cs[Len(cs)].err
            /\ (w.pc = "returned" /\ w.err = "nil") =>
                  /\ Len(cs) = 2 * w.n
                  /\ \A k \in 1..Len(cs) : cs[k].err = "nil"
            /\ (w.pc = "returned" /\ w.err # "nil") =>
                  cs # <<>> /\ cs[Len(cs)].op = "Write" /\ cs[Len(cs)].err = w.err

\* the first Write of a batch of two fails: the second event is neither
\* enriched nor written, while the other request's batch goes through
C19_Witness ==
    /\ pipe.w[1].n = 2 /\ pipe.w[1].pc = "returned" /\ pipe.w[1].err # "nil"
    /\ Len(WorkerCalls(1)) = 2
    /\ pipe.w[2].n = 2 /\ pipe.w[2].pc = "returned" /\ pipe.w[2].err = "nil"
    /\ Len(WorkerCalls(2)) = 4

(***************************************************************************)
(* C20: the drain loop.  acct.enq lists the spool file names in the order  *)
(* of their enqueue calls, acct.sent the names whose insert by the drain   *)
(* loop succeeded, in that order, acct.cut the names of the files removed  *)
(* from the outbox undelivered (by overflow, or as unreadable); th[t].tried *)
(* counts the files the running drainOutbox call of goroutine t took from  *)
(* oldestMeta.                                                             *)
(***************************************************************************)
\* the position of spool file n in the order of enqueueing
\* (0 for a name that was never enqueued)
EnqIndex(n) ==
    IF \E k \in 1..Len(acct.enq) : acct.enq[k] = n
    THEN CHOOSE k \in 1..Len(acct.enq) : acct.enq[k] = n
    ELSE 0

\* the steps of one drain iteration that hold the file taken by oldestMeta
DrainHolds == {"drainRead", "drainInsert", "drainRemove"}

\* one drainOutbox call takes at most DrainLimit (10 in the code) files
AtMostTenPerCall == \A t \in Threads : th[t].tried <= DrainLimit

\* the file a drain iteration holds was enqueued, and every file of the
\* outbox has a name that is not smaller and was not enqueued before it
TakesOldest ==
    \A t \in Threads : th[t].pc \in DrainHolds =>
        /\ EnqIndex(th[t].meta.name) > 0
        /\ \A k \in 1..Len(outbox.files) :
              /\ ~NameLess(outbox.files[k].name, th[t].meta.name)
              /\ EnqIndex(outbox.files[k].name) >= EnqIndex(th[t].meta.name)

\* delivery k came after delivery j of a file enqueued later
Overtaken(j, k) ==
    j < k /\ EnqIndex(acct.sent[k]) < EnqIndex(acct.sent[j])

\* delivery k repeats a delivery made before delivery j
RepeatedBefore(j, k) == \E i \in 1..(j - 1) : acct.sent[i] = acct.sent[k]

C20_WitnessOldestOfTwo ==
    \E t \in Threads :
        /\ th[t].pc = "drainInsert"
        /\ Len(outbox.files) = 2
        /\ th[t].meta.name = acct.enq[1]
        /\ NameLess(th[t].meta.name, outbox.files[2].name)

\* two concurrent drainOutbox calls took the same file: it reaches the sink
\* a second time after a file enqueued later
C20_WitnessRepeated ==
    /\ Len(acct.sent) = 3
    /\ acct.sent[1] = acct.sent[3]
    /\ EnqIndex(acct.sent[1]) < EnqIndex(acct.sent[2])

\* a drain held the first file while the enqueue of the second removed it
\* by overflow: the second file reaches the sink before the first
C20_WitnessOvertaken ==
    /\ Len(acct.sent) = 2
    /\ Overtaken(1, 2)
    /\ acct.sent[2] \in acct.cut
    /\ outbox.droppedEvents > 0

(***************************************************************************)
(* C21: a failed insert in the drain loop.                                 *)
(***************************************************************************)
\* this step is goroutine t's insert of a spool file, and the insert fails
DrainInsertFailed(t) ==
    /\ th[t].pc = "drainInsert"
    /\ th'[t] # th[t]
    /\ env'.insertFails < env.insertFails

MinOf(a, b) == IF a < b THEN a ELSE b

\* C21: when the insert of a spool file fails the drain keeps the file,
\* sets nextRetryAt to now + currentBackoff (before the doubling), doubles
\* currentBackoff up to retryMax, takes no further file in that call and
\* Flush returns nil
C21_DrainFailureBacksOff ==
    [][\A t \in Threads : DrainInsertFailed(t) =>
          /\ outbox' = outbox /\ disk' = disk /\ sink' = sink
          /\ writer'.nextRetryAt = clock + writer.currentBackoff
          /\ writer'.currentBackoff = MinOf(2 * writer.currentBackoff, writer.retryMax)
          /\ th'[t].pc \notin DrainHolds \cup {"drainOldest"}
          /\ last'.op = "return" /\ last'.t = t /\ last'.err = "nil"]_vars

\* a drain's insert failed for the second time: the file is still in the
\* outbox, the delay is the backoff before its doubling and the backoff is
\* at retryMax
C21_Witness ==
    /\ last.op = "return" /\ last.from = "drainInsert" /\ last.err = "nil"
    /\ Len(outbox.files) >= 1
    /\ writer.currentBackoff = writer.retryMax
    /\ writer.nextRetryAt = clock + writer.retryMax
    /\ acct.sent = <<>>

(***************************************************************************)
(* C22: the backoff and the scheduled delays against retryMax.             *)
(***************************************************************************)
\* currentBackoff and the delay scheduled last are at most retryMax
WithinRetryMax ==
    /\ writer.currentBackoff <= writer.retryMax
    /\ last.op = "drainFail" => last.delay <= writer.retryMax

\* C22 as stated: for every configuration of RetryBackoff and
\* RetryMaxBackoff, currentBackoff and every scheduled delay
\* nextRetryAt - now are at most retryMax
C22_AsStated == WithinRetryMax

\* what holds: the bound is kept when the initial backoff (after the
\* defaults were applied) is itself at most retryMax
C22_CappedWhenInitialWithinMax ==
    writer.retryBackoff <= writer.retryMax => WithinRetryMax

\* the configured backoff is above the configured maximum: the first failed
\* insert schedules a delay above retryMax
C22_Witness ==
    /\ writer.retryBackoff > writer.retryMax
    /\ last.op = "drainFail"
    /\ last.delay > writer.retryMax

\* the default backoff of one second doubles up to a configured maximum
C22_WitnessCapped ==
    /\ writer.retryBackoff = DefaultRetryBackoff
    /\ writer.retryMax = 5
    /\ writer.currentBackoff = writer.retryMax
    /\ last.op = "drainFail" /\ last.delay = 4

(***************************************************************************)
(* C23: the nextRetryAt gate of drainOutbox.                               *)
(***************************************************************************)
\* this step is the gate test of goroutine t's drainOutbox call
AtDrainGate(t) == th[t].pc = "drainGate" /\ th'[t] # th[t]

C23_WitnessResumed ==
    \E t \in Threads :
        /\ th[t].pc = "drainOldest" /\ th[t].i = 0
        /\ writer.nextRetryAt # ZeroTime /\ clock = writer.nextRetryAt
        /\ Len(outbox.files) >= 1

(***************************************************************************)
(* C24: what a successful insert does to the retry state.                  *)
(***************************************************************************)
\* this step is goroutine t's insert of a spool file, and the sink accepts it
DrainInsertSucceeded(t) == th[t].pc = "drainInsert" /\ th'[t].pc = "drainRemove"

\* this step is goroutine t's insert of the buffered batch, and the sink
\* accepts it
DirectInsertSucceeded(t) ==
    /\ writer.hasOutbox
    /\ th[t].pc = "insert" /\ th'[t] # th[t]
    /\ env'.insertFails = env.insertFails

\* this step is goroutine t's oldestMeta call, and the outbox is empty
FoundEmpty(t) ==
    th[t].pc = "drainOldest" /\ th'[t] # th[t] /\ Len(outbox.files) = 0

\* C24 as stated: every successful insert, of a spool file or of the
\* buffered batch, resets currentBackoff to the configured retryBackoff
C24_AsStated ==
    [][\A t \in Threads :
          (DrainInsertSucceeded(t) \/ DirectInsertSucceeded(t)) =>
              writer'.currentBackoff = writer.retryBackoff]_vars

\* what the code does: a successful insert leaves currentBackoff and
\* nextRetryAt as they are; the drained file is removed from the outbox
\* before the call takes its next file; currentBackoff is reset and
\* nextRetryAt cleared when a drain that passed the gate finds the outbox
\* empty
C24_ResetWhenFoundEmpty ==
    [][\A t \in Threads :
          /\ (DrainInsertSucceeded(t) \/ DirectInsertSucceeded(t)) => writer' = writer
          /\ (th[t].pc = "drainRemove" /\ th'[t] # th[t]) =>
                \A k \in 1..Len(outbox'.files) : outbox'.files[k].name # th[t].meta.name
          /\ FoundEmpty(t) =>
                /\ writer'.currentBackoff = writer.retryBackoff
                /\ writer'.nextRetryAt = ZeroTime
                /\ last'.op = "return" /\ last'.err = "nil"]_vars

\* after a failed drain the sink has accepted a spool file and
\* currentBackoff is still the doubled value
C24_Witness ==
    \E t \in Threads :
        /\ th[t].pc = "drainRemove"
        /\ acct.sent # <<>>
        /\ writer.currentBackoff > writer.retryBackoff
        /\ writer.nextRetryAt # ZeroTime

\* the outbox was drained by a call that reached its file limit: it is
\* empty, and nextRetryAt and the doubled backoff stay until the next Flush
C24_WitnessEmptyNotCleared ==
    /\ \A t \in Threads : th[t].pc = "idle"
    /\ Len(outbox.files) = 0
    /\ acct.sent # <<>>
    /\ writer.nextRetryAt # ZeroTime
    /\ writer.currentBackoff > writer.retryBackoff

(***************************************************************************)
(* C25: an unreadable spool file.                                          *)
(***************************************************************************)
\* this step is goroutine t's readBatchFile of a file that is in the spool
\* directory, and the read or the parse fails
ReadFailed(t) ==
    /\ th[t].pc = "drainRead" /\ th'[t] # th[t]
    /\ th'[t].pc # "drainInsert"
    /\ th[t].meta.name \in DOMAIN disk.spool

\* after a failed read: the file is gone from the outbox and from the spool
\* directory, nothing reached the sink, and the call goes on to its next
\* iteration or, after its last one, returns nil
DroppedAndSkipped(t) ==
    /\ \A k \in 1..Len(outbox'.files) : outbox'.files[k].name # th[t].meta.name
    /\ th[t].meta.name \notin DOMAIN disk'.spool
    /\ sink' = sink /\ writer' = writer
    /\ IF th[t].i + 1 < DrainLimit
       THEN th'[t].pc = "drainOldest" /\ th'[t].i = th[t].i + 1
       ELSE last'.op = "return" /\ last'.t = t /\ last'.err = "nil"

\* a file removed from the outbox is not taken by oldestMeta again
NeverTakenAgain(t) ==
    (th[t].pc = "drainOldest" /\ th'[t].pc = "drainRead") =>
        th'[t].meta.name \notin acct.cut

\* C25 as stated: an unreadable spool file is deleted, its events are added
\* to the dropped-events counter, it is not attempted again, the drain goes
\* on and Flush returns nil
C25_AsStated ==
    [][\A t \in Threads :
          /\ ReadFailed(t) =>
                /\ DroppedAndSkipped(t)
                /\ outbox'.droppedEvents = outbox.droppedEvents + th[t].meta.events
          /\ NeverTakenAgain(t)]_vars

\* what the code does: the same, but the dropped-events counter stays
C25_DeletedNotCounted ==
    [][\A t \in Threads :
          /\ ReadFailed(t) =>
                /\ DroppedAndSkipped(t)
                /\ outbox'.droppedEvents = outbox.droppedEvents
          /\ NeverTakenAgain(t)]_vars

\* a spool file was unreadable and removed, the drain has gone on, and the
\* dropped-events counter is still zero
C25_Witness ==
    \E t \in Threads :
        /\ th[t].pc = "drainOldest" /\ th[t].i = 1
        /\ acct.unreadable # {}
        /\ acct.overflow = {}
        /\ outbox.droppedEvents = 0

(***************************************************************************)
(* C26, C27: the buffer under concurrent Write and Flush.                  *)
(***************************************************************************)
RECURSIVE Flatten(_)
Flatten(seqs) == IF seqs = <<>> THEN <<>> ELSE Head(seqs) \o Flatten(Tail(seqs))

\* C26: the snapshots taken so far, in the order they were taken, followed
\* by the buffer are the appended events in the order of their appends: a
\* snapshot is the buffer of that moment, later events are in the new buffer,
\* no event is in two snapshots or lost; a delivered batch is one snapshot,
\* in its order, and a snapshot is delivered at most once
C26_SnapshotsPartitionWrites ==
    /\ Flatten(acct.snaps) \o writer.buf = acct.wlog
    /\ \A k \in 1..Len(acct.snaps) : acct.snaps[k] # <<>>
    /\ \A k \in 1..Len(acct.direct) :
          /\ \E j \in 1..Len(acct.snaps) : acct.snaps[j] = acct.direct[k]
          /\ \A j \in 1..Len(acct.direct) : j # k => acct.direct[j] # acct.direct[k]
    /\ \A t \in Threads : th[t].pc = "insert" =>
          /\ \E j \in 1..Len(acct.snaps) : acct.snaps[j] = th[t].batch
          /\ \A k \in 1..Len(acct.direct) : acct.direct[k] # th[t].batch
    /\ sink = Range(Flatten(acct.direct))

\* a Flush took its snapshot, a Write appended after it, and the snapshot
\* was delivered while the later event waits in the new buffer
C26_Witness ==
    /\ Len(acct.snaps) = 1 /\ acct.direct = acct.snaps
    /\ Len(acct.snaps[1]) = 2
    /\ Len(writer.buf) = 1
    /\ \E t \in Threads : th[t].pc = "flushBuf"

\* no batch or buffer is longer than n
AtMost(n) ==
    /\ Len(writer.buf) <= n
    /\ \A k \in 1..Len(acct.snaps) : Len(acct.snaps[k]) <= n
    /\ \A k \in 1..Len(acct.direct) : Len(acct.direct[k]) <= n

\* C27 as stated: the buffer never holds more than the threshold, and no
\* delivered batch is longer
C27_AsStated == AtMost(writer.flush)

\* what holds: each goroutine inside Write can add one event beyond the
\* threshold before the first of them takes the buffer
C27_ThresholdPlusWriters == AtMost(writer.flush + Cardinality(Threads) - 1)

\* a Write filled the buffer to the threshold, another goroutine's Write
\* appended before the first one's flushBuf took the buffer, and the sink
\* accepted the batch of threshold + 1 events
C27_Witness ==
    /\ Len(acct.direct) >= 1
    /\ Len(acct.direct[1]) = writer.flush + 1


(***************************************************************************)
(* C28: spool file names of one process (SpecNames).                       *)
(***************************************************************************)
StampIdx == 1..Len(acct.stamps)

\* the first sequence number that %0wd prints with more than SeqDigits digits
SeqLimit == 10 ^ SeqDigits

\* the position in enqueue order of the enqueue that formatted name n (0: none)
StampIndex(n) ==
    IF \E k \in StampIdx : acct.stamps[k].name = n
    THEN CHOOSE k \in StampIdx : acct.stamps[k].name = n
    ELSE 0

\* the metadata list is in enqueue order
ListedInEnqueueOrder ==
    \A i, j \in 1..Len(outbox.files) :
        i < j => StampIndex(outbox.files[i].name) < StampIndex(outbox.files[j].name)

\* C28 as stated: for every sequence of enqueues and clock readings, each
\* enqueue's name is lexicographically strictly greater than the name of
\* every earlier enqueue, and the sorted metadata list is in enqueue order.
C28_AsStated ==
    /\ \A j, k \in StampIdx :
          j < k => LexLess(acct.stamps[j].name, acct.stamps[k].name)
    /\ ListedInEnqueueOrder

\* C28 amended: no two enqueues of a process format the same name, whatever
\* the clock reads; an enqueue's name is strictly greater than the name of
\* an earlier enqueue when its clock reading is not below the earlier one
\* and its sequence number still fits the padded width; the metadata list is
\* sorted by name, and two listed files for which that holds are listed in
\* enqueue order.
C28_UniqueAndOrderedByClock ==
    /\ \A j, k \in StampIdx :
          j < k =>
            /\ acct.stamps[j].name # acct.stamps[k].name
            /\ (acct.stamps[j].nanos <= acct.stamps[k].nanos /\ acct.stamps[k].seq < SeqLimit)
                  => LexLess(acct.stamps[j].name, acct.stamps[k].name)
    /\ \A i, j \in 1..Len(outbox.files) :
          i < j =>
            /\ LexLess(outbox.files[i].name, outbox.files[j].name)
            /\ LET a == StampIndex(outbox.files[i].name)
                   b == StampIndex(outbox.files[j].name)
               IN  /\ a > 0
                   /\ b > 0
                   /\ (b < a => \/ acct.stamps[a].nanos < acct.stamps[b].nanos
                                \/ acct.stamps[a].seq >= SeqLimit)

\* two batches enqueued at the same clock reading are both listed, the
\* second after the first on its sequence number alone
C28_Witness ==
    /\ Len(acct.stamps) >= 2
    /\ Len(outbox.files) >= 2
    /\ \E j, k \in StampIdx :
          /\ j < k
          /\ acct.stamps[j].nanos = acct.stamps[k].nanos
          /\ acct.stamps[k].seq < SeqLimit
          /\ outbox.files[1].name = acct.stamps[j].name
          /\ outbox.files[2].name = acct.stamps[k].name

\* the clock stood at an earlier reading for the second of two enqueues:
\* the later batch is listed first
C28_WitnessClockBack ==
    /\ Len(outbox.files) >= 2
    /\ \E j, k \in StampIdx :
          /\ j < k
          /\ acct.stamps[k].nanos < acct.stamps[j].nanos
          /\ outbox.files[1].name = acct.stamps[k].name
          /\ outbox.files[2].name = acct.stamps[j].name

\* at one clock reading the sequence number outgrows its padded width: the
\* longer name sorts before the shorter one
C28_WitnessSeqWidth ==
    /\ Len(outbox.files) >= 2
    /\ \E j, k \in StampIdx :
          /\ j < k
          /\ acct.stamps[j].nanos = acct.stamps[k].nanos
          /\ acct.stamps[j].seq < SeqLimit
          /\ acct.stamps[k].seq >= SeqLimit
          /\ outbox.files[1].name = acct.stamps[k].name
          /\ outbox.files[2].name = acct.stamps[j].name


(***************************************************************************)
(* C29: a null element in the array (SpecHandler).                         *)
(***************************************************************************)
\* the request at hand passed the method, Content-Type, token and X-Spip-ID
\* checks and the limiter lets it through
PassedToBody ==
    /\ http.req.method = "POST"
    /\ http.req.contentType = "application/json"
    /\ HasBearerPrefix(http.req.authz)
    /\ Validate(TokenOf(http.req.authz)) # ""
    /\ ~SpipMismatch(http.req.xSpipID, Validate(TokenOf(http.req.authz)))
    /\ Allow(http.before, Validate(TokenOf(http.req.authz)), clock).ok

\* the body was read within the cap and is an array with a null element
HasNullElement ==
    /\ http.req.body.kind = "array"
    /\ \E i \in 1..Len(http.req.body.elems) : http.req.body.elems[i] = "null"

\* the position of the first null element
FirstNull == CHOOSE i \in 1..Len(http.req.body.elems) :
                /\ http.req.body.elems[i] = "null"
                /\ \A j \in 1..(i - 1) : http.req.body.elems[j] # "null"

C29_WitnessTooLong ==
    /\ http.pc = "answered"
    /\ PassedToBody
    /\ HasNullElement
    /\ Len(http.req.body.elems) > MaxEventsPerBatch
    /\ http.resp.status = 413
    /\ http.resp.slug = "batch_too_large"

\* an oversized element before the null element is answered 413
C29_WitnessLargeFirst ==
    /\ http.pc = "answered"
    /\ PassedToBody
    /\ http.req.body.kind = "array"
    /\ http.req.body.elems = <<"large", "null">>
    /\ http.resp.status = 413
    /\ http.resp.slug = "event_too_large"


(***************************************************************************)
(* C30: the request counter (SpecHandler).  The handler is built with      *)
(* Metrics set; resp.metrics lists the calls of Metrics.IncRequests.       *)
(***************************************************************************)
\* metrics.go statusToString: the decimal text of the listed codes, else "other"
statusToString(code) ==
    IF code \in {200, 204, 400, 401, 413, 429, 500, 503} THEN Digits(code)
    ELSE <<111, 116, 104, 101, 114>>

\* Metrics.IncRequests: the label pair of RequestsTotal that is incremented
IncRequests(sensorID, status) == <<sensorID, statusToString(status)>>

\* the increments of RequestsTotal made for the request at hand, in order
Increments ==
    [i \in 1..Len(http.resp.metrics) |->
        IncRequests(http.resp.metrics[i][1], http.resp.metrics[i][2])]

ClientErrors == {405, 415, 401, 429, 400, 413}

\* the request passed the method and Content-Type checks and is rejected for
\* a missing Authorization header, a scheme other than Bearer or an unknown token
CredentialRejected ==
    /\ http.req.method = "POST"
    /\ http.req.contentType = "application/json"
    /\ \/ ~HasBearerPrefix(http.req.authz)
       \/ Validate(TokenOf(http.req.authz)) = ""

\* the request is rejected on its method, its Content-Type or an X-Spip-ID
\* header that differs from the token's sensor
RejectedUncounted ==
    \/ http.req.method # "POST"
    \/ http.req.contentType # "application/json"
    \/ /\ HasBearerPrefix(http.req.authz)
       /\ Validate(TokenOf(http.req.authz)) # ""
       /\ SpipMismatch(http.req.xSpipID, Validate(TokenOf(http.req.authz)))

\* one increment, labelled with the decimal text of the response's status
CountedOnceWithStatus ==
    /\ Len(Increments) = 1
    /\ Increments[1][2] = Digits(http.resp.status)
    /\ CredentialRejected => Increments[1][1] = "unknown"

\* C30 as stated: every request answered 405, 415, 401, 429, 400 or 413
\* increments the request counter exactly once, labelled with the status of
\* the response; a request rejected for a missing or unknown credential is
\* counted under the sensor label "unknown".
C30_AsStated ==
    (http.pc = "answered" /\ http.resp.status \in ClientErrors) => CountedOnceWithStatus

\* what the handler does: the 405 and 415 answers and the 401 answer to an
\* X-Spip-ID mismatch increment nothing; every other client-error answer
\* increments the counter once under its status, the credential rejections
\* under the sensor label "unknown" and the others under the token's sensor
C30_CountedFromCredentialCheckOn ==
    (http.pc = "answered" /\ http.resp.status \in ClientErrors) =>
        IF RejectedUncounted
        THEN /\ Increments = <<>>
             /\ http.resp.status \in {405, 415, 401}
        ELSE /\ CountedOnceWithStatus
             /\ ~CredentialRejected =>
                   Increments[1][1] = Validate(TokenOf(http.req.authz))

\* a valid token with the X-Spip-ID of another sensor is answered 401 and
\* the request counter is not incremented
C30_Witness ==
    /\ http.pc = "answered"
    /\ http.req.method = "POST"
    /\ http.req.contentType = "application/json"
    /\ Validate(TokenOf(http.req.authz)) = "sensor-a"
    /\ http.req.xSpipID = "sensor-b"
    /\ http.resp.status = 401
    /\ Increments = <<>>

\* a POST with another Content-Type is answered 415 and not counted
C30_WitnessContentType ==
    /\ http.pc = "answered"
    /\ http.req.method = "POST"
    /\ http.resp.status = 415
    /\ Increments = <<>>

\* an unknown token is answered 401 and counted once under "unknown", "401"
C30_WitnessUnknownCounted ==
    /\ http.pc = "answered"
    /\ CredentialRejected
    /\ HasBearerPrefix(http.req.authz)
    /\ http.resp.status = 401
    /\ Increments = <<IncRequests("unknown", 401)>>
    /\ Increments[1][2] = <<52, 48, 49>>


(***************************************************************************)
(* C31: one token per sensor (SpecTokens).                                 *)
(***************************************************************************)
\* the credential table: the slice v.tokens
TokenTableNow == SubSeq(validator.heap[validator.ptr], 1, validator.len)

C31_WitnessRejected ==
    /\ Len(validator.heap) >= 2
    /\ callers[1].result = "multiple_tokens"
    /\ Cardinality(DOMAIN callers[1].map) = 2
    /\ Len(TokenTableNow) = 2


(***************************************************************************)
(* C32: Close and the lookups in flight (SpecClose).                       *)
(***************************************************************************)
\* C32 as stated: in every interleaving of Close with concurrent EnrichEvent
\* calls no ASN or geolocation lookup is invoked on a database handle that
\* has been closed or set to nil (nor is the handle closed before the
\* lookup returns).
C32_AsStated ==
    \A l \in enrich.lookups : ~l.nil /\ l.state = "open"

\* what holds: no lookup is called on or returns from a reader that Close
\* has closed, and a lookup is called on a nil field only once Close has set
\* the field to nil
C32_NeverOnClosedReader ==
    \A l \in enrich.lookups :
        IF l.nil THEN enrich.db[l.db] = "closed" /\ enrich.closer \in {"unlock", "done"}
        ELSE l.state = "open"

\* a goroutine tested the field before Close and called the lookup on the
\* nil field after it: it panicked holding the read lock
C32_Witness ==
    /\ enrich.closer = "done"
    /\ \E w \in Workers :
          /\ enrich.g[w].pc = "panicked"
          /\ w \in enrich.readers
          /\ [db |-> enrich.g[w].db, at |-> "call", nil |-> TRUE, state |-> "closed"]
                \in enrich.lookups

\* a lookup ran on an open reader while Close waited for the mutex
C32_WitnessCloseWaits ==
    /\ enrich.closer = "lock"
    /\ enrich.readers # {}
    /\ \E l \in enrich.lookups : ~l.nil /\ l.state = "open"


(***************************************************************************)
(* C33, C34: the QPS window and the cache of the DNS enricher (SpecDNS).   *)
(***************************************************************************)
\* the cap a DNSEnricher built with max_qps = q works with
EffectiveQPS(q) == IF q <= 0 THEN 10 ELSE q

\* the cache holds an entry for ip that has not expired at the clock's reading
CacheLive(ip) == ip \in DOMAIN enrich.dns.cache /\ clock < enrich.dns.cache[ip].exp

\* a call entering now finds the window neither due for a reset nor with budget left
WindowExhausted ==
    /\ clock - enrich.dns.qpsTicker < DNSSecond
    /\ enrich.dns.qpsCount >= enrich.dns.maxQPS

\* goroutine w enters LookupPTR in this step
Enters(w) == enrich.g[w].pc = "idle" /\ enrich'.g[w].pc # "idle"

\* goroutine w's net.LookupAddr returns and its result is stored in this step
Stores(w) == enrich.g[w].pc = "lookup" /\ enrich'.g[w].pc = "done"

\* a cache-missing call that finds the window exhausted returns "" at once:
\* no lookup, no cache write, nothing counted
ExhaustedReturnsEmpty ==
    \A w \in Workers :
        (Enters(w) /\ ~CacheLive(enrich'.g[w].ip) /\ WindowExhausted) =>
            /\ enrich'.g[w].pc = "done"
            /\ enrich'.g[w].out = "exhausted"
            /\ enrich'.g[w].name = EmptyName
            /\ enrich'.dns = enrich.dns
            /\ enrich'.started = enrich.started

\* C33: between two consecutive resets of the QPS window at most max_qps
\* resolver lookups are started (10 for a non-positive max_qps), whatever
\* the interleaving of LookupPTR calls; a cache-missing call that finds the
\* window exhausted returns the empty name, makes no lookup and writes
\* nothing to the cache.
C33_WindowBudget == [](enrich.started <= EffectiveQPS(enrich.qpsArg)
                        /\ enrich.dns.maxQPS = EffectiveQPS(enrich.qpsArg))
                    /\ [][ExhaustedReturnsEmpty]_vars

\* the configured cap of lookups was started in one window and a call for
\* an address that is not cached was turned away
C33_Witness ==
    /\ enrich.qpsArg > 0
    /\ enrich.started = enrich.qpsArg
    /\ \E w \in Workers :
          /\ enrich.g[w].pc = "done"
          /\ enrich.g[w].out = "exhausted"
          /\ enrich.g[w].name = EmptyName
          /\ enrich.g[w].ip \notin DOMAIN enrich.dns.cache

\* built with a non-positive max_qps the enricher works with a cap of 10 and
\* starts more lookups in one window than any configured cap allows
C33_WitnessDefault ==
    /\ enrich.qpsArg <= 0
    /\ enrich.dns.maxQPS = 10
    /\ enrich.started > MaxConfiguredQPS

\* a call served from a live cache entry: the entry's name, no lookup, the
\* window and its count untouched
HitServedFromCache ==
    \A w \in Workers :
        \A ip \in IPs :
            (Enters(w) /\ enrich'.g[w].ip = ip /\ CacheLive(ip)) =>
                /\ enrich'.g[w].pc = "done"
                /\ enrich'.g[w].name = enrich.dns.cache[ip].name
                /\ enrich'.dns = enrich.dns
                /\ enrich'.started = enrich.started

\* a completed lookup leaves an entry with the name returned, the empty name
\* for a failure or an empty answer, expiring cacheTTL after the call's reading
LookupIsCached ==
    \A w \in Workers :
        Stores(w) =>
            /\ enrich.g[w].ip \in DOMAIN enrich'.dns.cache
            /\ enrich'.dns.cache[enrich.g[w].ip] =
                  [name |-> enrich'.g[w].name, exp |-> enrich.g[w].now + enrich.dns.cacheTTL]
            /\ enrich'.dns.qpsCount = enrich.dns.qpsCount

\* C34: once a reverse lookup for an IP has completed, with a name or with a
\* failure or empty result, every LookupPTR for that IP before the cache
\* entry expires returns the cached value (the empty name for a negative
\* result) without a resolver lookup and without consuming the QPS budget.
C34_CachedUntilExpiry == [][HitServedFromCache /\ LookupIsCached]_vars

\* a negative result is served from the cache while the window is exhausted
C34_Witness ==
    /\ WindowExhausted
    /\ \E w \in Workers :
          /\ enrich.g[w].pc = "done"
          /\ enrich.g[w].out = "hit"
          /\ enrich.g[w].name = EmptyName
          /\ CacheLive(enrich.g[w].ip)
          /\ enrich.dns.cache[enrich.g[w].ip].name = EmptyName

\* a name is served from the cache with its trailing dot cut off
C34_WitnessName ==
    \E w \in Workers :
        /\ enrich.g[w].pc = "done"
        /\ enrich.g[w].out = "hit"
        /\ enrich.g[w].name = <<"dns.google">>


(***************************************************************************)
(* C35: the chunks of a spooled batch (SpecSpool).                         *)
(***************************************************************************)
\* the chunk size a writer built with outbox_batch_size = n works with
EffectiveChunkSize(n) == IF n <= 0 THEN Threshold ELSE n

\* the lines of the spool files made for the batch at hand, in the order made
StampLines == [k \in 1..Len(acct.stamps) |-> acct.stamps[k].lines]

\* C35: a failed batch is split into consecutive chunks whose concatenation
\* in order is the batch, each chunk non-empty and of at most
\* outbox_batch_size events (the flush threshold for a non-positive size),
\* and each chunk becomes exactly one spool file, enqueued in chunk order.
C35_ChunksInOrder ==
    th[1].pc \in {"spool", "spooled", "enqueue_err"} =>
        /\ Flatten(StampLines \o th[1].chunks) = th[1].failed
        /\ \A k \in 1..Len(th[1].chunks) :
              /\ Len(th[1].chunks[k]) >= 1
              /\ Len(th[1].chunks[k]) <= EffectiveChunkSize(env.batchSize)
        /\ \A k \in 1..Len(StampLines) :
              /\ Len(StampLines[k]) >= 1
              /\ Len(StampLines[k]) <= EffectiveChunkSize(env.batchSize)
        /\ \A j, k \in 1..Len(acct.stamps) :
              j < k => acct.stamps[j].name # acct.stamps[k].name
        /\ th[1].pc = "spooled" => th[1].chunks = <<>>
        /\ th[1].pc # "spooled" => th[1].chunks # <<>>

\* a batch of three events was spooled as a chunk of two and a chunk of one
C35_Witness ==
    /\ th[1].pc = "spooled"
    /\ Len(th[1].failed) = 3
    /\ Len(StampLines) = 2
    /\ Len(StampLines[1]) = 2
    /\ Len(StampLines[2]) = 1
    /\ env.batchSize <= 0

\* an enqueue failed after the first chunk was spooled: the rest of the
\* batch is not enqueued
C35_WitnessEnqueueError ==
    /\ th[1].pc = "enqueue_err"
    /\ Len(StampLines) = 1
    /\ Len(th[1].chunks) = 2


(***************************************************************************)
(* C36: the outbox after a crash and a restart (SpecCrash).                *)
(***************************************************************************)
RenamedAndKept == {acct.stamps[k] : k \in 1..Len(acct.stamps)}

C36_WitnessAfterRename ==
    /\ last.op = "reload"
    /\ clock = 1
    /\ Len(outbox.files) = 1
    /\ outbox.files[1].events = 2
    /\ outbox.droppedEvents = 0
    /\ disk.tmp = EmptyDir.tmp
    /\ sink = {}

\* a file was delivered by the process that found it at its start, while a
\* .tmp file stays in the directory
C36_WitnessDelivered ==
    /\ \E p \in sink : NanosPart(p[1]) = Digits(0) \o Digits(0)
    /\ clock = 1
    /\ last.op = "remove"
    /\ DOMAIN disk.tmp # {}


(***************************************************************************)
(* C37: what the drainer removes (SpecWriter).                             *)
(***************************************************************************)
\* the spool files a step takes off the outbox's list
GoneFromList == ListedNames \ {outbox'.files[i].name : i \in 1..Len(outbox'.files)}

\* the files left in the directory hold what they held
KeptFilesUnchanged ==
    /\ DOMAIN disk'.spool \subseteq DOMAIN disk.spool
    /\ \A n \in DOMAIN disk'.spool : disk'.spool[n] = disk.spool[n]

\* a step of goroutine t inside drainOutbox
DrainStepOf(t) == th'[t] # th[t] /\ th[t].pc \in
    {"drainGate", "drainOldest", "drainRead", "drainInsert", "drainRemove"}

DrainerRemovesAfterInsert(t) ==
    DrainStepOf(t) =>
        /\ KeptFilesUnchanged
        /\ GoneFromList \subseteq {th[t].meta.name}
        /\ GoneFromList # {} =>
              \/ /\ th[t].pc = "drainRemove"
                 /\ th[t].batch = disk.spool[th[t].meta.name]
                 /\ Range(th[t].batch) \subseteq sink
                 /\ th[t].meta.name \in Range(acct.sent)
              \/ /\ th[t].pc = "drainRead"
                 /\ th'[t].pc # "drainInsert"
        /\ (th[t].pc = "drainInsert" /\ th'[t].pc # "drainRemove") =>
              /\ outbox' = outbox
              /\ disk' = disk

\* C37: the drainer takes a spool file off the outbox only after an insert
\* of that file's whole batch returned success, or after the file proved
\* unreadable; a file whose insert failed stays with its content, whatever
\* the interleaving of Flush calls and enqueues.
C37_RemovedOnlyAfterInsert == [][\A t \in Threads : DrainerRemovesAfterInsert(t)]_vars

\* two goroutines have both inserted the same spool file and are about to
\* remove it
C37_Witness ==
    /\ \A t \in Threads : th[t].pc = "drainRemove"
    /\ th[1].meta.name = th[2].meta.name
    /\ th[1].meta.name \in ListedNames

\* the insert of a spool file has failed and the file is still listed
C37_WitnessInsertFailed ==
    /\ writer.nextRetryAt # ZeroTime
    /\ Len(outbox.files) = 2
    /\ acct.sent = <<>>
    /\ \A t \in Threads : th[t].pc = "idle"

\* a spool file was removed after its insert while another stays listed
C37_WitnessRemoved ==
    /\ \E n \in Range(acct.sent) : n \notin ListedNames
    /\ Len(outbox.files) = 1
    /\ acct.cut = {}


(***************************************************************************)
(* C38: event conservation with the outbox (SpecWriter).                   *)
(***************************************************************************)
\* the events of the snapshots taken out of the buffer and not yet inserted
\* or spooled, and of the spool files being inserted
InDelivery ==
    UNION {Range(th[t].batch) : t \in {u \in Threads : th[u].pc \in {"insert", "drainInsert"}}}
    \cup UNION {Range(Flatten(th[t].chunks)) : t \in {u \in Threads : th[u].pc = "spool"}}

NoDiskErrors == env.diskFaults = MaxDiskFaults

\* C38: with the outbox and no disk errors, every event accepted by Write is
\* in the buffer, in a snapshot being delivered, in a spool file, in the
\* sink, or among the events counted in dropped_events_total.
C38_EventsConserved ==
    (writer.hasOutbox /\ NoDiskErrors) =>
        /\ acct.written \subseteq
              Range(writer.buf) \cup InDelivery \cup InSpool \cup sink \cup acct.overflow
        /\ outbox.droppedEvents = Cardinality(acct.overflow)

\* both events were written; one was deleted by the byte cap and counted,
\* the other was drained into the sink
C38_Witness ==
    /\ writer.hasOutbox /\ NoDiskErrors
    /\ acct.written = 1..MaxWrites
    /\ Cardinality(acct.overflow) = 1
    /\ outbox.droppedEvents = 1
    /\ sink = acct.written \ acct.overflow
    /\ InSpool = {}
    /\ \A t \in Threads : th[t].pc = "idle"

\* one event is in a spool file while the other waits to be enqueued by a
\* second goroutine
C38_WitnessInFlight ==
    /\ writer.hasOutbox /\ NoDiskErrors
    /\ Cardinality(InSpool) = 1
    /\ \E t \in Threads : th[t].pc = "spool" /\ Range(Flatten(th[t].chunks)) \cap InSpool = {}
    /\ sink = {}
    /\ writer.buf = <<>>


(***************************************************************************)
(* C39: requests that fail authentication and the limiter (SpecHandler).   *)
(***************************************************************************)
\* the Authorization header is missing or malformed, the token is unknown, or
\* the X-Spip-ID header names another sensor than the token's
FailsAuthentication(req) ==
    \/ req.authz.scheme = ""
    \/ ~HasBearerPrefix(req.authz)
    \/ TokenOf(req.authz) \notin DOMAIN TokenTable
    \/ req.xSpipID # "" /\ req.xSpipID # TokenTable[TokenOf(req.authz)]

ServedUnauthenticated ==
    (http.pc = "received" /\ http'.pc = "answered" /\ FailsAuthentication(http.req)) =>
        /\ limiter' = limiter
        /\ http'.resp.rateKey = ""
        /\ http'.resp.pbCalls = 0
        /\ http'.resp.status \in {401, 405, 415}

\* C39: a request that fails authentication never calls the rate limiter:
\* serving it leaves every sensor's window and count as they were.
C39_LimiterUntouched == [][ServedUnauthenticated]_vars

\* a request with an unknown token was answered 401 in the second in which
\* sensor-a has used up its window: window and count are as before
C39_Witness ==
    /\ http.pc = "answered"
    /\ http.req.method = "POST"
    /\ http.req.contentType = "application/json"
    /\ http.req.authz = [scheme |-> "Bearer", token |-> "unknown"]
    /\ http.resp.status = 401
    /\ MapGet(limiter.count, "sensor-a") = HandlerRPS
    /\ limiter = http.before

\* a valid token of sensor-b with the X-Spip-ID of sensor-a, after sensor-b
\* was limited in this second
C39_WitnessMismatch ==
    /\ http.pc = "answered"
    /\ http.req.method = "POST"
    /\ http.req.contentType = "application/json"
    /\ http.req.authz = [scheme |-> "bearer", token |-> "tok-b"]
    /\ http.req.xSpipID = "sensor-a"
    /\ http.resp.status = 401
    /\ MapGet(limiter.count, "sensor-b") > 0
    /\ clock = MaxHandlerSecond
    /\ limiter = http.before


(***************************************************************************)
(* C40: the order of shutdown (SpecShutdown).                              *)
(***************************************************************************)
\* C40 as stated: Close runs its final flush only after the ingest server
\* has stopped serving, so no handler calls Write after Close has flushed
\* and no event of a request answered 204 is in the buffer when the process
\* exits.
C40_AsStated ==
    /\ pipe.flushed => pipe.server = "stopped"
    /\ pipe.late = {}
    /\ pipe.exited => pipe.answered \cap Range(writer.buf) = {}

\* the process has ended with an event in the buffer whose request was
\* answered 204 after Close's flush
C40_Witness ==
    /\ pipe.exited
    /\ pipe.answered \cap Range(writer.buf) # {}
    /\ pipe.late \cap pipe.answered # {}

\* Close has flushed while the ingest server still accepts requests
C40_WitnessStillServing ==
    /\ pipe.flushed
    /\ pipe.server = "serving"
    /\ \E t \in Threads : th[t].pc = "write" /\ pipe.req[t] \cap acct.written = {}

\* what the final flush does deliver: every event a handler wrote before
\* Close took the buffer is in the sink, or in a batch a handler had taken
\* and is inserting, once Close has flushed
C40_FlushedWhatWasWritten ==
    pipe.flushed =>
        acct.written \ pipe.late \subseteq
            sink \cup UNION {Range(th[t].batch) : t \in {u \in Threads : th[u].pc = "insert"}}

\* the final flush delivered an event that no handler flush had taken
C40_WitnessFlushed ==
    /\ pipe.flushed
    /\ pipe.late = {}
    /\ sink # {}
    /\ \A t \in Threads : th[t].pc = "idle"
    /\ Cardinality(acct.written) = 1

=============================================================================
